---- MODULE Spec2Model ----
(***************************************************************************)
(* Verification model of the valhalla-bot watcher core:                    *)
(*   - the encounters watcher (src/src/watcher/encountersWatcher.ts,       *)
(*     second unit, lines 248-628),                                        *)
(*   - the mints watcher (src/unnamed/part_001),                           *)
(*   - the front end's toggle handlers (src/unnamed/part_000).             *)
(* Every `await` of the source is a step boundary: an action is the        *)
(* completion of one awaited call together with the synchronous code that  *)
(* follows it up to the next await.                                        *)
(***************************************************************************)
EXTENDS Integers, Sequences, FiniteSets, Bags, TLC

(* ------------------------------ bounds --------------------------------- *)
MaxHead == 105          \* the chain head stops growing here
MaxCalls == 2           \* pollOnce invocations (timer ticks and manual) per run
MaxToggles == 2         \* front-end toggles per run
MaxBatch == 3
ATTRIB_MAX_RETRIES == 2 \* VALHALLA_ATTRIB_MAX_RETRIES (the default is 8)

(* ------------------------- program constants --------------------------- *)
BLOCK_BATCH == 6000
BACKFILL_BLOCKS == 12000
BACKFILL_LIMIT == 0
EVENT_DEDUP_TTL == 120
STICKY_TTL == 900
BaselineIndex == 9999999
SeenCeiling == 6000
TTL_MS == 1800000
LIVE_LATEST_BACKSCAN == 2400

Chats == {1}
PollIds == {1, 2}
EnableIds == {1}

NoName == "<null>"
NoCursor == [bn |-> -1, txi |-> -1, li |-> -1]
DefaultSession == [enabled |-> FALSE, usernames |-> <<>>, lastCursor |-> NoCursor]

(* --------------------------- the remote chain -------------------------- *)
\* Store_SetRecord logs of the EncounterSeed table; ok = FALSE is a record
\* that fails structural validation (keyTuple[0] not a 32-byte hex string).
EncLogs ==
  { [bn |-> 101, txi |-> 0, li |-> 0, h |-> "t1", charId |-> 1, ok |-> TRUE],
    [bn |-> 103, txi |-> 2, li |-> 0, h |-> "t2", charId |-> 0, ok |-> FALSE],
    [bn |-> 103, txi |-> 2, li |-> 1, h |-> "t2", charId |-> 2, ok |-> TRUE],
    [bn |-> 105, txi |-> 0, li |-> 0, h |-> "t3", charId |-> 1, ok |-> TRUE] }

\* valhalla__getOpponentVerasInBattle(charId) when the battle is visible
OppVera(charId) == 10 + charId
\* valhalla__getPlayerBattleData(charId).username when the lookup succeeds
CharName(charId) == IF charId = 1 THEN "Alice" ELSE "bob"

\* the heights at which the model looks at the chain
Heads == {100, MaxHead}

(* ------------------------------ helpers -------------------------------- *)
\* the mutated key: the row's key moved one block ahead
KeySkipAhead(r) == [bn |-> r.bn + 1, txi |-> r.txi, li |-> r.li]

Key(r) == [bn |-> r.bn, txi |-> r.txi, li |-> r.li]

\* isAfter with >= on the log index, so that the cursor's own row counts as
\* new; C7 tells the two apart
isAfterOrEqual(a, c) ==
  IF c = NoCursor THEN TRUE
  ELSE (a.bn > c.bn) \/ (a.bn = c.bn /\ (a.txi > c.txi \/ (a.txi = c.txi /\ a.li >= c.li)))

isAfter(a, c) ==
  IF c = NoCursor THEN TRUE
  ELSE (a.bn > c.bn) \/ (a.bn = c.bn /\ (a.txi > c.txi \/ (a.txi = c.txi /\ a.li > c.li)))

\* the comparator handed to Array.prototype.sort
Cmp(a, b) ==
  IF a.bn - b.bn # 0 THEN a.bn - b.bn
  ELSE IF a.txi - b.txi # 0 THEN a.txi - b.txi
  ELSE a.li - b.li

RECURSIVE SortAsc(_)
SortAsc(S) ==
  IF S = {} THEN <<>>
  ELSE LET m == CHOOSE x \in S : \A y \in S : Cmp(x, y) <= 0
       IN <<m>> \o SortAsc(S \ {m})

\* the configuration the watcher read at start: batch is VALHALLA_BLOCK_BATCH,
\* limit is VALHALLA_BACKFILL_LIMIT
VARIABLE conf

\* a batch loop whose ranges run one block too far, so that neighbours share
\* a block; C29 tells the two apart
RECURSIVE BatchesOverlap(_, _, _)
BatchesOverlap(from, toBlock, size) ==
  IF from > toBlock THEN <<>>
  ELSE LET to == IF toBlock < from + size THEN toBlock ELSE from + size
       IN <<[from |-> from, to |-> to]>> \o BatchesOverlap(from + size, toBlock, size)

\* the block ranges of the batch loop `for (from = fromBlock; from <= toBlock; from += BLOCK_BATCH)`
RECURSIVE Batches(_, _, _)
Batches(from, toBlock, size) ==
  IF from > toBlock THEN <<>>
  ELSE LET to == IF toBlock < from + size - 1 THEN toBlock ELSE from + size - 1
       IN <<[from |-> from, to |-> to]>> \o Batches(from + size, toBlock, size)

Range(seq) == { seq[k] : k \in 1..Len(seq) }

Last(seq, n) == SubSeq(seq, Len(seq) - n + 1, Len(seq))

\* Intl.Collator(sensitivity: "base") equality: case is ignored
Base(n) == IF n \in {"Alice", "alice", "ALICE"} THEN "alice" ELSE n

usernamePass(list, name) ==
  IF Len(list) = 0 THEN TRUE
  ELSE IF name = NoName THEN FALSE
  ELSE \E k \in 1..Len(list) : Base(list[k]) = Base(name)

\* getEncounterRowsAsc with the last block of every batch left out; C8 tells
\* the two apart
getEncounterRowsBelow(fromBlock, toBlock) ==
  LET bs  == Batches(fromBlock, toBlock, conf.batch)
      raw == UNION { { l \in EncLogs : bs[k].from <= l.bn /\ l.bn < bs[k].to } : k \in 1..Len(bs) }
      out == SortAsc({ l \in raw : l.ok })
  IN IF conf.limit > 0 /\ Len(out) > conf.limit THEN Last(out, conf.limit) ELSE out

\* rows of getEncounterRowsAsc(fromBlock, toBlock): one getLogs per batch,
\* malformed records dropped, sorted ascending, optional cap
getEncounterRowsAsc(fromBlock, toBlock) ==
  LET bs  == Batches(fromBlock, toBlock, conf.batch)
      raw == UNION { { l \in EncLogs : bs[k].from <= l.bn /\ l.bn <= bs[k].to } : k \in 1..Len(bs) }
      out == SortAsc({ l \in raw : l.ok })
  IN IF conf.limit > 0 /\ Len(out) > conf.limit THEN Last(out, conf.limit) ELSE out

EmptyMap == [k \in {} |-> 0]

\* seenWithTtl with a window that ends one block early (exp > bn); C9 tells
\* the two apart
seenWithTtlStrict(m, key, bn, ttl) ==
  LET exp == IF key \in DOMAIN m THEN m[key] ELSE 0
      m1  == [k \in (DOMAIN m) \cup {key} |-> IF k = key THEN bn + ttl ELSE m[k]]
  IN IF exp > bn THEN [hit |-> TRUE, map |-> m]
     ELSE [hit |-> FALSE, map |-> IF Cardinality(DOMAIN m1) > SeenCeiling THEN EmptyMap ELSE m1]

\* seenWithTtl without the size ceiling (no m.clear()); C34 tells the two
\* apart
seenWithTtlUnbounded(m, key, bn, ttl) ==
  LET exp == IF key \in DOMAIN m THEN m[key] ELSE 0
      m1  == [k \in (DOMAIN m) \cup {key} |-> IF k = key THEN bn + ttl ELSE m[k]]
  IN IF exp >= bn THEN [hit |-> TRUE, map |-> m]
     ELSE [hit |-> FALSE, map |-> m1]

\* seenWithTtl on one chat's map: [hit, map]
seenWithTtl(m, key, bn, ttl) ==
  LET exp == IF key \in DOMAIN m THEN m[key] ELSE 0
      m1  == [k \in (DOMAIN m) \cup {key} |-> IF k = key THEN bn + ttl ELSE m[k]]
  IN IF exp >= bn THEN [hit |-> TRUE, map |-> m]
     ELSE [hit |-> FALSE, map |-> IF Cardinality(DOMAIN m1) > SeenCeiling THEN EmptyMap ELSE m1]


(* ------------------------- attribution cache --------------------------- *)
\* attributionCache.ts: the Map as a sequence of entries in insertion order
prune(m, t) ==
  LET expired == { k \in 1..Len(m) : m[k].expiresAt <= t }
  IN IF Len(m) > 5000
     THEN SelectSeq(m, LAMBDA x : x.expiresAt > t)
     ELSE IF expired = {} THEN m
          ELSE LET f == CHOOSE k \in expired : \A j \in expired : k <= j
               IN SubSeq(m, 1, f - 1) \o SubSeq(m, f + 1, Len(m))

setFromEncounter(m, t, veraId, charId, username) ==
  LET m1 == prune(m, t)
      e  == [k |-> veraId, charId |-> charId, username |-> username, expiresAt |-> t + TTL_MS]
  IN IF \E j \in 1..Len(m1) : m1[j].k = veraId
     THEN [j \in 1..Len(m1) |-> IF m1[j].k = veraId THEN e ELSE m1[j]]
     ELSE Append(m1, e)

NoAttrib == [charId |-> 0, username |-> NoName]

\* getAttribution that still answers at the very millisecond of expiry
\* (expiresAt < now); C31 tells the two apart
getAttributionLate(m, t, veraId) ==
  LET m1  == prune(m, t)
      idx == { j \in 1..Len(m1) : m1[j].k = veraId }
  IN IF idx = {} THEN [map |-> m1, value |-> NoAttrib]
     ELSE LET v == m1[CHOOSE j \in idx : TRUE]
          IN IF v.expiresAt < t
             THEN [map |-> SelectSeq(m1, LAMBDA x : x.k # veraId), value |-> NoAttrib]
             ELSE [map |-> m1, value |-> [charId |-> v.charId, username |-> v.username]]

\* getAttribution: [map, value]; value = NoAttrib stands for null
getAttribution(m, t, veraId) ==
  LET m1  == prune(m, t)
      idx == { j \in 1..Len(m1) : m1[j].k = veraId }
  IN IF idx = {} THEN [map |-> m1, value |-> NoAttrib]
     ELSE LET v == m1[CHOOSE j \in idx : TRUE]
          IN IF v.expiresAt <= t
             THEN [map |-> SelectSeq(m1, LAMBDA x : x.k # veraId), value |-> NoAttrib]
             ELSE [map |-> m1, value |-> [charId |-> v.charId, username |-> v.username]]

(* ------------------------------- state --------------------------------- *)
VARIABLES
  watcher,     \* which watcher the bot is built with: "encounters" or "mints"
  catchup,     \* CATCHUP_ON_ENABLE
  head,        \* current chain height
  now,         \* Date.now()
  store,       \* persisted sessions: chat -> prefs
  front,       \* front end: the enable/pause microtask a toggle has queued
  sent,        \* bag of the sendCard calls that reached the sink
  lastHanded,  \* chat -> key of the row most recently handed to row processing
  calls,       \* pollOnce invocations so far
  toggles,     \* toggles so far
  attrMap,     \* attributionCache.ts map
  intervals,   \* live setInterval timers
  nextTid,     \* next timer id
  timers,      \* encounters: Map chat -> timer id (0 = no entry)
  locks,       \* encounters: Map chat -> boolean
  runToken,    \* encounters: Map chat -> number (-1 = no entry)
  seenEvent,   \* encounters: seenEventPerChat
  seenSticky,  \* encounters: seenStickyPerChat
  poll,        \* encounters: pollOnce invocations in flight
  en,          \* encounters: enable invocations in flight
  tid,         \* mints: the one timer id of the watcher (0 = undefined)
  pending,     \* mints: keys of the pending Map, in insertion order
  pobj,        \* mints: the Pending objects, by token id
  seenMint,    \* mints: seenEventPerChat
  mpoll,       \* mints: pollOnce invocations in flight
  men,         \* mints: enable invocations in flight
  call         \* the rpc helper: one wrapped remote call and its retries

VARIABLES
  pvpEnabled,  \* PvP: the pvpEnabled flag of the stored session, by chat
  qfront,      \* PvP: the enable/pause microtask a toggle has queued
  qtimers,     \* PvP: the chats that have an entry in the timers map
  liveByChat,  \* PvP: chat -> (key -> message id) of the tracked alerts
  alerts,      \* PvP: the messages sendAlert created; the message id is the index
  deleted,     \* PvP: bag of the message ids deleteAlert was called with
  qpoll        \* PvP: pollOnce invocations in flight, and what the last one did

sharedVars == <<call, conf, pvpEnabled, qfront, qtimers, liveByChat, alerts, deleted, qpoll, watcher, catchup, head, now, store, front, sent, lastHanded, calls, toggles, attrMap, intervals, nextTid>>
encVars == <<timers, locks, runToken, seenEvent, seenSticky, poll, en>>
mintVars == <<tid, pending, pobj, seenMint, mpoll, men>>
vars == <<sharedVars, encVars, mintVars>>

\* the chats that have a session
Subscribers == DOMAIN store

NoToken == 0 - 1
Undef == 0 - 1

IdlePoll == [pc |-> "idle", chat |-> 0, tk |-> 0, s |-> DefaultSession, head |-> 0,
             todo |-> <<>>, i |-> 0, last |-> NoCursor, fine |-> TRUE, out |-> <<>>]
IdleEnable == [pc |-> "idle", chat |-> 0, token |-> 0, session |-> DefaultSession, head |-> 0,
               rows |-> <<>>, i |-> 0, s |-> DefaultSession, cur |-> NoCursor]
NoFront == [op |-> "none", s |-> DefaultSession]

\* a chat that has its filters set but was never enabled, and a chat whose
\* session was persisted by an earlier process
Fresh == [enabled |-> FALSE, usernames |-> <<"alice", "bob">>, lastCursor |-> NoCursor]
Resumed == [enabled |-> TRUE, usernames |-> <<"alice", "bob">>, lastCursor |-> [bn |-> 100, txi |-> 0, li |-> 0]]

(* --------------------------- history helper ---------------------------- *)
LeqKey(a, b) == a = b \/ isAfter(b, a)

\* a row is handed to row processing
Hand(c, row) == lastHanded' = [lastHanded EXCEPT ![c] = Key(row)]

(* ----------------------- encounters: run tokens ------------------------ *)
\* bumpRun that starts the count over instead of adding to it; C23 tells the
\* two apart
bumpRunReset(rt, c) == [rt EXCEPT ![c] = 1]

\* bumpRun(chatId) on the runToken map
bumpRun(rt, c) == [rt EXCEPT ![c] = (IF @ = Undef THEN 0 ELSE @) + 1]
\* isCurrent that accepts every token; C35 tells the two apart
isCurrentAny(rt, c, token) == rt[c] # Undef

isCurrent(rt, c, token) == rt[c] # Undef /\ rt[c] = token

(* ------------------ encounters: sendEncounterForCharacter -------------- *)
\* The body after the remote reads returned.  o is the outcome of the remote
\* calls: "noName" (usernameFromCharacterId returns null), "oppFail"
\* (getOpponentVerasInBattle throws), "noOpp" (empty list), "hydFail"
\* (getVera throws), "sinkFail" (sendCard throws), "ok".
sendEncounterForCharacter(c, row, session, o, ev, st, attr, t) ==
  LET v     == OppVera(row.charId)
      uname == IF o = "noName" THEN NoName ELSE CharName(row.charId)
      same  == [ev |-> ev, st |-> st, attr |-> attr, note |-> <<>>, threw |-> FALSE]
      attr1 == setFromEncounter(attr, t, v, row.charId, uname)
      e     == seenWithTtl(ev, <<row.bn, row.h, v>>, row.bn, EVENT_DEDUP_TTL)
      k     == seenWithTtl(st, <<row.charId, v>>, row.bn, STICKY_TTL)
      card  == [chat |-> c, vera |-> v, bn |-> row.bn, h |-> row.h,
                user |-> IF uname = NoName THEN "#id" ELSE uname]
  IN IF o = "oppFail" THEN [same EXCEPT !.threw = TRUE]
     ELSE IF o = "noOpp" THEN same
     ELSE IF e.hit THEN [same EXCEPT !.attr = attr1]
     ELSE IF k.hit THEN [same EXCEPT !.attr = attr1, !.ev = e.map]
     ELSE IF o = "hydFail" THEN [same EXCEPT !.attr = attr1, !.ev = e.map, !.st = k.map, !.threw = TRUE]
     ELSE IF ~usernamePass(session.usernames, uname) THEN [same EXCEPT !.attr = attr1, !.ev = e.map, !.st = k.map]
     ELSE IF o = "sinkFail" THEN [same EXCEPT !.attr = attr1, !.ev = e.map, !.st = k.map, !.threw = TRUE]
     ELSE [same EXCEPT !.attr = attr1, !.ev = e.map, !.st = k.map, !.note = <<card>>]

RowOutcomes == {"noName", "oppFail", "noOpp", "hydFail", "sinkFail", "ok"}


(* ----------------------- encounters: pollOnce -------------------------- *)
FreePoll == CHOOSE p \in PollIds : poll[p].pc = "idle" /\ \A q \in PollIds : poll[q].pc = "idle" => p <= q

\* a tick that ends without the finally block: the lock stays set; C36
\* tells the two apart
ReleaseKeep(p) ==
  /\ UNCHANGED locks
  /\ poll' = [poll EXCEPT ![p] = IdlePoll]

\* finally { locks.set(chatId, false) }
Release(p) ==
  /\ locks' = [locks EXCEPT ![poll[p].chat] = FALSE]
  /\ poll' = [poll EXCEPT ![p] = IdlePoll]

\* pollOnce(chatId, token?) up to its first await
PollEnter(c, token) ==
  /\ watcher = "encounters"
  /\ calls < MaxCalls
  /\ \E p \in PollIds : poll[p].pc = "idle"
  /\ calls' = calls + 1
  /\ LET tk == IF token # NoToken THEN token ELSE IF runToken[c] = Undef THEN 0 ELSE runToken[c]
     IN IF ~isCurrent(runToken, c, tk) \/ locks[c]
        THEN UNCHANGED <<poll, locks>>
        ELSE /\ locks' = [locks EXCEPT ![c] = TRUE]
             /\ poll' = [poll EXCEPT ![FreePoll] = [IdlePoll EXCEPT !.pc = "session", !.chat = c, !.tk = tk]]
  /\ UNCHANGED <<call, conf, pvpEnabled, qfront, qtimers, liveByChat, alerts, deleted, qpoll, watcher, catchup, head, now, store, front, sent, lastHanded, toggles, attrMap, intervals, nextTid>>
  /\ UNCHANGED <<timers, runToken, seenEvent, seenSticky, en>>
  /\ UNCHANGED mintVars

\* setInterval(() => pollOnce(chatId, token), POLL_MS) fires
TimerTick == \E t \in intervals : PollEnter(t.chat, t.token)

\* __pollOnce(chatId)
ManualPoll == \E c \in Subscribers : PollEnter(c, NoToken)

\* getSession returned
PollSession(p) ==
  /\ poll[p].pc = "session"
  /\ LET s == store[poll[p].chat]
     IN IF ~s.enabled THEN Release(p)
        ELSE /\ poll' = [poll EXCEPT ![p].pc = "head", ![p].s = s]
             /\ UNCHANGED locks
  /\ UNCHANGED sharedVars
  /\ UNCHANGED <<timers, runToken, seenEvent, seenSticky, en>>
  /\ UNCHANGED mintVars

\* latestBlock() returned or threw
PollHead(p) ==
  /\ poll[p].pc = "head"
  /\ \E ok \in BOOLEAN :
       LET cur    == poll[p].s.lastCursor
           fromBn == IF cur # NoCursor THEN cur.bn ELSE head
       IN IF ~ok \/ head < fromBn THEN Release(p)
          ELSE /\ poll' = [poll EXCEPT ![p].pc = "scan", ![p].head = head]
               /\ UNCHANGED locks
  /\ UNCHANGED sharedVars
  /\ UNCHANGED <<timers, runToken, seenEvent, seenSticky, en>>
  /\ UNCHANGED mintVars

\* getEncounterRowsAsc returned or threw; the first row is handed to
\* sendEncounterForCharacter
PollScan(p) ==
  /\ poll[p].pc = "scan"
  /\ \E ok \in BOOLEAN :
       LET cur    == poll[p].s.lastCursor
           fromBn == IF cur # NoCursor THEN cur.bn ELSE poll[p].head
           rows   == getEncounterRowsAsc(fromBn, poll[p].head)
           todo   == SelectSeq(rows, LAMBDA r : isAfter(Key(r), cur))
       IN IF ~ok \/ todo = <<>>
          THEN Release(p) /\ UNCHANGED lastHanded
          ELSE /\ poll' = [poll EXCEPT ![p].pc = "row", ![p].todo = todo, ![p].i = 1]
               /\ Hand(poll[p].chat, todo[1])
               /\ UNCHANGED locks
  /\ UNCHANGED <<call, conf, pvpEnabled, qfront, qtimers, liveByChat, alerts, deleted, qpoll, watcher, catchup, head, now, store, front, sent, calls, toggles, attrMap, intervals, nextTid>>
  /\ UNCHANGED <<timers, runToken, seenEvent, seenSticky, en>>
  /\ UNCHANGED mintVars

\* sendEncounterForCharacter of row i returned or threw; next row or persist
PollRow(p) ==
  /\ poll[p].pc = "row"
  /\ LET c   == poll[p].chat
         row == poll[p].todo[poll[p].i]
     IN \E o \in RowOutcomes :
          LET r == sendEncounterForCharacter(c, row, poll[p].s, o,
                                             seenEvent[c], seenSticky[c], attrMap, now)
          IN /\ seenEvent' = [seenEvent EXCEPT ![c] = r.ev]
             /\ seenSticky' = [seenSticky EXCEPT ![c] = r.st]
             /\ attrMap' = r.attr
             /\ sent' = sent (+) SetToBag(Range(r.note))
             /\ IF r.threw
                THEN Release(p) /\ UNCHANGED lastHanded
                ELSE /\ UNCHANGED locks
                     /\ IF poll[p].i < Len(poll[p].todo)
                        THEN /\ poll' = [poll EXCEPT ![p].i = @ + 1, ![p].last = Key(row),
                                                     ![p].fine = @ /\ o = "ok",
                                                     ![p].out = @ \o r.note]
                             /\ Hand(c, poll[p].todo[poll[p].i + 1])
                        ELSE /\ poll' = [poll EXCEPT ![p].pc = "persist", ![p].last = Key(row),
                                                     ![p].s.lastCursor = Key(row),
                                                     ![p].fine = @ /\ o = "ok",
                                                     ![p].out = @ \o r.note]
                             /\ UNCHANGED lastHanded
  /\ UNCHANGED <<call, conf, pvpEnabled, qfront, qtimers, liveByChat, alerts, deleted, qpoll, watcher, catchup, head, now, store, front, calls, toggles, intervals, nextTid>>
  /\ UNCHANGED <<timers, runToken, en>>
  /\ UNCHANGED mintVars

\* setSession(chatId, s) landed; finally
PollPersist(p) ==
  /\ poll[p].pc = "persist"
  /\ store' = [store EXCEPT ![poll[p].chat] = poll[p].s]
  /\ Release(p)
  /\ UNCHANGED <<call, conf, pvpEnabled, qfront, qtimers, liveByChat, alerts, deleted, qpoll, watcher, catchup, head, now, front, sent, lastHanded, calls, toggles, attrMap, intervals, nextTid>>
  /\ UNCHANGED <<timers, runToken, seenEvent, seenSticky, en>>
  /\ UNCHANGED mintVars

(* ------------------- encounters: enable / pause ------------------------ *)
\* const tid = setInterval(...); timers.set(chatId, tid)  -- the end of enable
StartTimer(e) ==
  /\ intervals' = intervals \cup {[id |-> nextTid, chat |-> en[e].chat, token |-> en[e].token]}
  /\ timers' = [timers EXCEPT ![en[e].chat] = nextTid]
  /\ nextTid' = nextTid + 1

\* enable(chatId, session) up to its first await
EnableEnter(c) ==
  /\ watcher = "encounters"
  /\ front[c].op = "enable"
  /\ \E e \in DOMAIN en :
       /\ en[e].pc = "idle"
       /\ en' = [en EXCEPT ![e] = [IdleEnable EXCEPT !.pc = "write", !.chat = c,
                                                    !.session = front[c].s,
                                                    !.token = bumpRun(runToken, c)[c]]]
  /\ intervals' = { t \in intervals : t.id # timers[c] }
  /\ timers' = [timers EXCEPT ![c] = 0]
  /\ runToken' = bumpRun(runToken, c)
  /\ front' = [front EXCEPT ![c] = NoFront]
  /\ UNCHANGED <<call, conf, pvpEnabled, qfront, qtimers, liveByChat, alerts, deleted, qpoll, watcher, catchup, head, now, store, sent, lastHanded, calls, toggles, attrMap, nextTid>>
  /\ UNCHANGED <<locks, seenEvent, seenSticky, poll>>
  /\ UNCHANGED mintVars

\* pause(chatId)
Pause(c) ==
  /\ watcher = "encounters"
  /\ front[c].op = "pause"
  /\ intervals' = { t \in intervals : t.id # timers[c] }
  /\ timers' = [timers EXCEPT ![c] = 0]
  /\ runToken' = bumpRun(runToken, c)
  /\ front' = [front EXCEPT ![c] = NoFront]
  /\ UNCHANGED <<call, conf, pvpEnabled, qfront, qtimers, liveByChat, alerts, deleted, qpoll, watcher, catchup, head, now, store, sent, lastHanded, calls, toggles, attrMap, nextTid>>
  /\ UNCHANGED <<locks, seenEvent, seenSticky, poll, en>>
  /\ UNCHANGED mintVars

\* the first setSession(chatId, session) landed
EnableWrite(e) ==
  /\ en[e].pc = "write"
  /\ store' = [store EXCEPT ![en[e].chat] = en[e].session]
  /\ en' = [en EXCEPT ![e].pc = "head"]
  /\ UNCHANGED <<call, conf, pvpEnabled, qfront, qtimers, liveByChat, alerts, deleted, qpoll, watcher, catchup, head, now, front, sent, lastHanded, calls, toggles, attrMap, intervals, nextTid>>
  /\ UNCHANGED <<timers, locks, runToken, seenEvent, seenSticky, poll>>
  /\ UNCHANGED mintVars

\* latestBlock() returned or threw (enable has no try/catch: it just ends)
EnableHead(e) ==
  /\ en[e].pc = "head"
  /\ \E ok \in BOOLEAN :
       IF ~ok THEN en' = [en EXCEPT ![e] = IdleEnable]
       ELSE IF catchup THEN en' = [en EXCEPT ![e].pc = "bfScan", ![e].head = head]
       ELSE en' = [en EXCEPT ![e].pc = "baseline", ![e].head = head,
                             ![e].session.lastCursor = [bn |-> head, txi |-> BaselineIndex, li |-> BaselineIndex]]
  /\ UNCHANGED sharedVars
  /\ UNCHANGED <<timers, locks, runToken, seenEvent, seenSticky, poll>>
  /\ UNCHANGED mintVars

\* the mutated end of enable: the timer starts, the baseline is not persisted
EnableTimerFirst(e) ==
  /\ en[e].pc = "baseline"
  /\ StartTimer(e)
  /\ en' = [en EXCEPT ![e] = IdleEnable]
  /\ UNCHANGED <<call, conf, pvpEnabled, qfront, qtimers, liveByChat, alerts, deleted, qpoll, watcher, catchup, head, now, store, front, sent, lastHanded, calls, toggles, attrMap>>
  /\ UNCHANGED <<locks, runToken, seenEvent, seenSticky, poll>>
  /\ UNCHANGED mintVars

\* live-only: the baseline setSession landed, the timer starts
EnableBaseline(e) ==
  /\ en[e].pc = "baseline"
  /\ store' = [store EXCEPT ![en[e].chat] = en[e].session]
  /\ StartTimer(e)
  /\ en' = [en EXCEPT ![e] = IdleEnable]
  /\ UNCHANGED <<call, conf, pvpEnabled, qfront, qtimers, liveByChat, alerts, deleted, qpoll, watcher, catchup, head, now, front, sent, lastHanded, calls, toggles, attrMap>>
  /\ UNCHANGED <<locks, runToken, seenEvent, seenSticky, poll>>
  /\ UNCHANGED mintVars


(* ---------------------- encounters: runBackfill ------------------------ *)
\* top of the loop `for (... of rows)`: "done" when the rows are used up or
\* the token is stale (break), otherwise isEnabled is awaited
BfLoopPc(thr) ==
  IF thr.i > Len(thr.rows) \/ ~isCurrent(runToken, thr.chat, thr.token) THEN "done" ELSE "bfEnabled"

BfContinue(e, thr) ==
  IF BfLoopPc(thr) = "done"
  THEN StartTimer(e) /\ en' = [en EXCEPT ![e] = IdleEnable]
  ELSE en' = [en EXCEPT ![e] = [thr EXCEPT !.pc = "bfEnabled"]] /\ UNCHANGED <<intervals, timers, nextTid>>

\* getEncounterRowsAsc(from, head) returned or threw
BfScan(e) ==
  /\ en[e].pc = "bfScan"
  /\ \E ok \in BOOLEAN :
       LET from == IF en[e].head - BACKFILL_BLOCKS > 0 THEN en[e].head - BACKFILL_BLOCKS ELSE 0
           got  == getEncounterRowsAsc(from, en[e].head)
           rows == IF conf.limit > 0 /\ Len(got) > conf.limit THEN Last(got, conf.limit) ELSE got
       IN IF ~ok THEN en' = [en EXCEPT ![e] = IdleEnable]
          ELSE en' = [en EXCEPT ![e].pc = "bfSession", ![e].rows = rows]
  /\ UNCHANGED sharedVars
  /\ UNCHANGED <<timers, locks, runToken, seenEvent, seenSticky, poll>>
  /\ UNCHANGED mintVars

\* getSession returned; the loop starts
BfSession(e) ==
  /\ en[e].pc = "bfSession"
  /\ LET s == store[en[e].chat]
     IN BfContinue(e, [en[e] EXCEPT !.s = s, !.cur = s.lastCursor, !.i = 1])
  /\ UNCHANGED <<call, conf, pvpEnabled, qfront, qtimers, liveByChat, alerts, deleted, qpoll, watcher, catchup, head, now, store, front, sent, lastHanded, calls, toggles, attrMap>>
  /\ UNCHANGED <<locks, runToken, seenEvent, seenSticky, poll>>
  /\ UNCHANGED mintVars

\* isEnabled(chatId) returned
BfEnabled(e) ==
  /\ en[e].pc = "bfEnabled"
  /\ LET c   == en[e].chat
         row == en[e].rows[en[e].i]
     IN IF ~store[c].enabled
        THEN StartTimer(e) /\ en' = [en EXCEPT ![e] = IdleEnable] /\ UNCHANGED lastHanded
        ELSE IF en[e].cur # NoCursor /\ ~isAfter(Key(row), en[e].cur)
        THEN BfContinue(e, [en[e] EXCEPT !.i = @ + 1]) /\ UNCHANGED lastHanded
        ELSE /\ en' = [en EXCEPT ![e].pc = "bfRow"]
             /\ Hand(c, row)
             /\ UNCHANGED <<intervals, timers, nextTid>>
  /\ UNCHANGED <<call, conf, pvpEnabled, qfront, qtimers, liveByChat, alerts, deleted, qpoll, watcher, catchup, head, now, store, front, sent, calls, toggles, attrMap>>
  /\ UNCHANGED <<locks, runToken, seenEvent, seenSticky, poll>>
  /\ UNCHANGED mintVars

\* sendEncounterForCharacter returned or threw
BfRow(e) ==
  /\ en[e].pc = "bfRow"
  /\ LET c   == en[e].chat
         row == en[e].rows[en[e].i]
     IN \E o \in RowOutcomes :
          LET r == sendEncounterForCharacter(c, row, en[e].s, o,
                                             seenEvent[c], seenSticky[c], attrMap, now)
          IN /\ seenEvent' = [seenEvent EXCEPT ![c] = r.ev]
             /\ seenSticky' = [seenSticky EXCEPT ![c] = r.st]
             /\ attrMap' = r.attr
             /\ sent' = sent (+) SetToBag(Range(r.note))
             /\ IF r.threw THEN en' = [en EXCEPT ![e] = IdleEnable]
                ELSE en' = [en EXCEPT ![e].pc = "bfPersist", ![e].cur = Key(row),
                                      ![e].s.lastCursor = Key(row)]
  /\ UNCHANGED <<call, conf, pvpEnabled, qfront, qtimers, liveByChat, alerts, deleted, qpoll, watcher, catchup, head, now, store, front, lastHanded, calls, toggles, intervals, nextTid>>
  /\ UNCHANGED <<timers, locks, runToken, poll>>
  /\ UNCHANGED mintVars

\* setSession(chatId, s) landed; next iteration
BfPersist(e) ==
  /\ en[e].pc = "bfPersist"
  /\ store' = [store EXCEPT ![en[e].chat] = en[e].s]
  /\ BfContinue(e, [en[e] EXCEPT !.i = @ + 1])
  /\ UNCHANGED <<call, conf, pvpEnabled, qfront, qtimers, liveByChat, alerts, deleted, qpoll, watcher, catchup, head, now, front, sent, lastHanded, calls, toggles, attrMap>>
  /\ UNCHANGED <<locks, runToken, seenEvent, seenSticky, poll>>
  /\ UNCHANGED mintVars

(* ------------------------------ front end ------------------------------ *)
\* bot.callbackQuery("menu:toggle:enc"): read, flip, write; the enable or
\* pause call is queued as a microtask
ToggleEnc(c) ==
  /\ watcher = "encounters"
  /\ toggles < MaxToggles
  /\ front[c].op = "none"
  /\ ~(~store[c].enabled /\ Len(store[c].usernames) = 0)
  /\ LET s == [store[c] EXCEPT !.enabled = ~@]
     IN /\ store' = [store EXCEPT ![c] = s]
        /\ front' = [front EXCEPT ![c] = [op |-> IF s.enabled THEN "enable" ELSE "pause", s |-> s]]
  /\ toggles' = toggles + 1
  /\ UNCHANGED <<call, conf, pvpEnabled, qfront, qtimers, liveByChat, alerts, deleted, qpoll, watcher, catchup, head, now, sent, lastHanded, calls, attrMap, intervals, nextTid>>
  /\ UNCHANGED encVars
  /\ UNCHANGED mintVars

(* ------------------------------ the chain ------------------------------ *)
ChainAdvance ==
  /\ head < MaxHead
  /\ \E h \in Heads : h > head /\ head' = h
  /\ UNCHANGED <<call, conf, pvpEnabled, qfront, qtimers, liveByChat, alerts, deleted, qpoll, watcher, catchup, now, store, front, sent, lastHanded, calls, toggles, attrMap, intervals, nextTid>>
  /\ UNCHANGED encVars
  /\ UNCHANGED mintVars

(* ---------------------------- mints watcher ---------------------------- *)
\* ERC-721 Transfer logs from the zero address; ok = FALSE is a log that
\* parseLog rejects
MintLogs ==
  { [bn |-> 101, txi |-> 0, li |-> 0, h |-> "m1", tokenId |-> 21, ok |-> TRUE],
    [bn |-> 103, txi |-> 2, li |-> 0, h |-> "m2", tokenId |-> 0, ok |-> FALSE],
    [bn |-> 103, txi |-> 2, li |-> 1, h |-> "m2", tokenId |-> 22, ok |-> TRUE] }

Tokens == { l.tokenId : l \in { x \in MintLogs : x.ok } }
MintRow(tokenId) == CHOOSE l \in MintLogs : l.ok /\ l.tokenId = tokenId
\* the character whose encounter produced the token
MintChar(tokenId) == tokenId - 20

\* rows of getMintLogsAsc(fromBlock, toBlock)
getMintLogsAsc(fromBlock, toBlock) ==
  LET bs  == Batches(fromBlock, toBlock, conf.batch)
      raw == UNION { { l \in MintLogs : bs[k].from <= l.bn /\ l.bn <= bs[k].to } : k \in 1..Len(bs) }
  IN SortAsc({ l \in raw : l.ok })

\* pollOnce: the rows of [from .. head] that lie after the cursor
MintTodo(cur, h) ==
  LET from == IF cur # NoCursor THEN cur.bn ELSE h
  IN SelectSeq(getMintLogsAsc(from, h), LAMBDA r : isAfter(Key(r), cur))

Max0(n) == IF n < 0 THEN 0 ELSE n

\* the instants at which the model looks at the clock: the retry backoff
\* 500 * (attempts + 1)^2 ms of every attempt the queue allows
Delay(attempts) == 500 * (attempts + 1) * (attempts + 1)
Times == {0} \cup { Delay(a) : a \in 0..(ATTRIB_MAX_RETRIES - 1) }

(* ----------------------- attribution strategies ------------------------ *)
\* What the remote calls of one resolver run answer:
\*   a: "throw" (getTransactionReceipt fails), "miss", "named"
\*   b: "miss", "named", "unnamed" (a queued character has the token as
\*      opponent, usernameFromCharacterId gives null)
\*   c: "throw" (getLogs fails), "miss", "named", "unnamed"
AllWorlds == [a : {"throw", "miss", "named"},
              b : {"miss", "named", "unnamed"},
              c : {"throw", "miss", "named", "unnamed"}]

\* one world for every distinct course of a resolver run: a call that is not
\* made is given the answer "miss"
Worlds == { w \in AllWorlds : /\ (w.a # "miss" => w.b = "miss" /\ w.c = "miss")
                              /\ (w.b = "named" => w.c = "miss") }

Found(attr, tokenId, named) ==
  [attr |-> attr, charId |-> MintChar(tokenId),
   username |-> IF named THEN CharName(MintChar(tokenId)) ELSE NoName, threw |-> FALSE]
Missed(attr) == [attr |-> attr, charId |-> 0, username |-> NoName, threw |-> FALSE]
Threw(attr) == [attr |-> attr, charId |-> 0, username |-> NoName, threw |-> TRUE]

\* A) a hit needs a username; only a hit writes the cache
tryAttributionFromSameTx(attr, t, tokenId, o) ==
  IF o = "throw" THEN Threw(attr)
  ELSE IF o = "named"
  THEN Found(setFromEncounter(attr, t, tokenId, MintChar(tokenId), CharName(MintChar(tokenId))), tokenId, TRUE)
  ELSE Missed(attr)

\* B) never throws; a hit writes the cache and returns whatever name it got
tryAttributionByOpponentProbe(attr, t, tokenId, o) ==
  IF o = "miss" THEN Missed(attr)
  ELSE LET r == Found(attr, tokenId, o = "named")
       IN [r EXCEPT !.attr = setFromEncounter(attr, t, tokenId, r.charId, r.username)]

\* a backscan that returns its hit without writing the cache; C32 tells the
\* two apart
populateWithoutWrite(attr, t, tokenId, o) ==
  IF o = "throw" THEN Threw(attr)
  ELSE IF o = "miss" THEN Missed(attr)
  ELSE Found(attr, tokenId, o = "named")

\* C) getLogs may throw; a hit writes the cache and returns whatever name it got
populateAttributionNearMint(attr, t, tokenId, o) ==
  IF o = "throw" THEN Threw(attr)
  ELSE IF o = "miss" THEN Missed(attr)
  ELSE LET r == Found(attr, tokenId, o = "named")
       IN [r EXCEPT !.attr = setFromEncounter(attr, t, tokenId, r.charId, r.username)]

\* tryResolveAttribution with the live probe tried before the same-transaction
\* scan; C10 tells the two apart
tryResolveProbeFirst(attr, t, tokenId, w) ==
  LET g == getAttribution(attr, t, tokenId)
      b == tryAttributionByOpponentProbe(g.map, t, tokenId, w.b)
      a == tryAttributionFromSameTx(b.attr, t, tokenId, w.a)
      c == populateAttributionNearMint(a.attr, t, tokenId, w.c)
      R(x, run, via) == [attr |-> x.attr, charId |-> x.charId, username |-> x.username,
                         threw |-> x.threw, run |-> run, via |-> via]
  IN IF g.value.username # NoName
     THEN [attr |-> g.map, charId |-> g.value.charId, username |-> g.value.username,
           threw |-> FALSE, run |-> <<>>, via |-> "cache"]
     ELSE IF b.username # NoName THEN R(b, <<"B">>, "B")
     ELSE IF a.threw \/ a.username # NoName THEN R(a, <<"B", "A">>, "A")
     ELSE IF c.threw \/ c.username # NoName THEN R(c, <<"B", "A", "C">>, "C")
     ELSE R(Missed(c.attr), <<"B", "A", "C">>, "none")

\* tryResolveAttribution: cache, then A, B, C; `run` lists the strategies
\* that were started, `via` names the source of the returned username
tryResolveAttribution(attr, t, tokenId, w) ==
  LET g == getAttribution(attr, t, tokenId)
      a == tryAttributionFromSameTx(g.map, t, tokenId, w.a)
      b == tryAttributionByOpponentProbe(a.attr, t, tokenId, w.b)
      c == populateAttributionNearMint(b.attr, t, tokenId, w.c)
      R(x, run, via) == [attr |-> x.attr, charId |-> x.charId, username |-> x.username,
                         threw |-> x.threw, run |-> run, via |-> via]
  IN IF g.value.username # NoName
     THEN [attr |-> g.map, charId |-> g.value.charId, username |-> g.value.username,
           threw |-> FALSE, run |-> <<>>, via |-> "cache"]
     ELSE IF a.threw \/ a.username # NoName THEN R(a, <<"A">>, "A")
     ELSE IF b.username # NoName THEN R(b, <<"A", "B">>, "B")
     ELSE IF c.threw \/ c.username # NoName THEN R(c, <<"A", "B", "C">>, "C")
     ELSE R(Missed(c.attr), <<"A", "B", "C">>, "none")

(* ------------------------ mints: state helpers ------------------------- *)
IdleMPoll == [pc |-> "idle", chat |-> 0, s |-> DefaultSession, t0 |-> 0, snap |-> <<>>, j |-> 0,
              head |-> 0, todo |-> <<>>, i |-> 0, user |-> NoName]
IdleMEnable == [pc |-> "idle", chat |-> 0, session |-> DefaultSession, row |-> 0, user |-> NoName]
NoPending == [chatId |-> 0, attempts |-> 0, firstSeen |-> 0]

MintKey(row) == <<row.bn, row.h, row.tokenId>>
MintCard(c, tokenId, user) ==
  [chat |-> c, vera |-> tokenId, bn |-> MintRow(tokenId).bn, h |-> MintRow(tokenId).h, user |-> user]

Remove(seq, k) == SelectSeq(seq, LAMBDA x : x # k)
\* Map.set: an existing key keeps its place, a new key goes last
Put(seq, k) == IF k \in Range(seq) THEN seq ELSE Append(seq, k)

\* the mutated loop: no entry of the snapshot is taken up
NextDueNone(snap, j, t0, objs) == Len(snap) + 1

\* a loop that takes up the next entry whatever its backoff; C27 tells the
\* two apart
NextDueAll(snap, j, t0, objs) == j

\* processPending's loop: the next snapshot entry, from index j on, whose
\* backoff has run out (Len + 1 when there is none)
RECURSIVE NextDue(_, _, _, _)
NextDue(snap, j, t0, objs) ==
  IF j > Len(snap) THEN j
  ELSE IF t0 - objs[snap[j]].firstSeen < Delay(objs[snap[j]].attempts) THEN NextDue(snap, j + 1, t0, objs)
  ELSE j

\* pollOnce's loop over todo: the next row, from index i on, that passes
\* handleMint's event dedup (Len + 1 when there is none)
RECURSIVE FirstMiss(_, _, _)
FirstMiss(todo, i, m) ==
  IF i > Len(todo) THEN i
  ELSE IF seenWithTtl(m, MintKey(todo[i]), todo[i].bn, EVENT_DEDUP_TTL).hit THEN FirstMiss(todo, i + 1, m)
  ELSE i

\* processPending goes on from snapshot index j; after the loop pollOnce
\* awaits latestBlock()
PendLoop(p, thr, j, objs) ==
  LET n == NextDue(thr.snap, j, thr.t0, objs)
  IN mpoll' = [mpoll EXCEPT ![p] = IF n > Len(thr.snap) THEN [thr EXCEPT !.pc = "scan", !.j = n]
                                   ELSE [thr EXCEPT !.pc = "pResolve", !.j = n]]

\* pollOnce's loop goes on from row i: rows the event dedup rejects return
\* at once, the first other row is recorded and awaits its attribution;
\* after the last row the cursor is set and setSession awaited
RowLoop(p, thr, i) ==
  LET c == thr.chat
      n == Len(thr.todo)
      k == FirstMiss(thr.todo, i, seenMint[c])
  IN IF i > n
     THEN /\ mpoll' = [mpoll EXCEPT ![p] = [thr EXCEPT !.pc = "persist", !.i = i,
                                                       !.s.lastCursor = Key(thr.todo[n])]]
          /\ UNCHANGED <<lastHanded, seenMint>>
     ELSE IF k > n
     THEN /\ mpoll' = [mpoll EXCEPT ![p] = [thr EXCEPT !.pc = "persist", !.i = k,
                                                       !.s.lastCursor = Key(thr.todo[n])]]
          /\ Hand(c, thr.todo[n])
          /\ UNCHANGED seenMint
     ELSE /\ mpoll' = [mpoll EXCEPT ![p] = [thr EXCEPT !.pc = "mResolve", !.i = k]]
          /\ Hand(c, thr.todo[k])
          /\ seenMint' = [seenMint EXCEPT ![c] =
                            seenWithTtl(@, MintKey(thr.todo[k]), thr.todo[k].bn, EVENT_DEDUP_TTL).map]

\* handleMint's queueing branch
Enqueue(c, tokenId) ==
  IF tokenId \in Range(pending) THEN UNCHANGED <<pending, pobj>>
  ELSE /\ pending' = Append(pending, tokenId)
       /\ pobj' = [pobj EXCEPT ![tokenId] = [chatId |-> c, attempts |-> 0, firstSeen |-> now]]

SinkOutcomes == {"ok", "hydFail", "sinkFail"}

(* --------------------------- mints: pollOnce --------------------------- *)
\* an awaited call threw: pollOnce has no try/catch, so the promise it
\* returned is rejected
Rejected(p) == [IdleMPoll EXCEPT !.pc = "rejected", !.chat = mpoll[p].chat]

FreeMPoll == CHOOSE p \in PollIds : mpoll[p].pc = "idle" /\ \A q \in PollIds : mpoll[q].pc = "idle" => p <= q

\* pollOnce(chatId) up to its first await
M_PollEnter(c) ==
  /\ watcher = "mints"
  /\ calls < MaxCalls
  /\ \E p \in PollIds : mpoll[p].pc = "idle"
  /\ calls' = calls + 1
  /\ mpoll' = [mpoll EXCEPT ![FreeMPoll] = [IdleMPoll EXCEPT !.pc = "session", !.chat = c]]
  /\ UNCHANGED <<call, conf, pvpEnabled, qfront, qtimers, liveByChat, alerts, deleted, qpoll, watcher, catchup, head, now, store, front, sent, lastHanded, toggles, attrMap, intervals, nextTid>>
  /\ UNCHANGED <<tid, pending, pobj, seenMint, men>>
  /\ UNCHANGED encVars

\* setInterval(() => pollOnce(chatId), POLL_MS) fires
M_TimerTick == \E t \in intervals : M_PollEnter(t.chat)

\* __pollOnce(chatId)
M_ManualPoll == \E c \in Subscribers : M_PollEnter(c)

\* the interval timer fires again and again: a tick of the periodic timer
\* that starts when the one before it has ended, outside the budget of calls
M_TickAgain ==
  /\ watcher = "mints"
  /\ \A p \in PollIds : mpoll[p].pc = "idle"
  /\ \E t \in intervals :
       mpoll' = [mpoll EXCEPT ![FreeMPoll] = [IdleMPoll EXCEPT !.pc = "session", !.chat = t.chat]]
  /\ UNCHANGED sharedVars
  /\ UNCHANGED <<tid, pending, pobj, seenMint, men>>
  /\ UNCHANGED encVars

\* getSession returned; processPending takes its snapshot
M_PollSession(p) ==
  /\ mpoll[p].pc = "session"
  /\ LET s == store[mpoll[p].chat]
     IN IF ~s.enabled THEN mpoll' = [mpoll EXCEPT ![p] = IdleMPoll]
        ELSE PendLoop(p, [mpoll[p] EXCEPT !.s = s, !.t0 = now, !.snap = pending], 1, pobj)
  /\ UNCHANGED sharedVars
  /\ UNCHANGED <<tid, pending, pobj, seenMint, men>>
  /\ UNCHANGED encVars

\* processPending: tryResolveAttribution of the entry returned or threw
M_PendResolve(p) ==
  /\ mpoll[p].pc = "pResolve"
  /\ \E w \in Worlds :
       LET k    == mpoll[p].snap[mpoll[p].j]
           r    == tryResolveAttribution(attrMap, now, k, w)
           objs == [pobj EXCEPT ![k].attempts = @ + 1]
       IN /\ attrMap' = r.attr
          /\ IF r.threw
             THEN mpoll' = [mpoll EXCEPT ![p] = Rejected(p)] /\ UNCHANGED <<pending, pobj>>
             ELSE IF r.username # NoName
             THEN /\ mpoll' = [mpoll EXCEPT ![p].pc = "pDeliver", ![p].user = r.username]
                  /\ UNCHANGED <<pending, pobj>>
             ELSE /\ pobj' = objs
                  /\ pending' = IF objs[k].attempts >= ATTRIB_MAX_RETRIES THEN Remove(pending, k)
                                ELSE Put(pending, k)
                  /\ PendLoop(p, mpoll[p], mpoll[p].j + 1, objs)
  /\ UNCHANGED <<call, conf, pvpEnabled, qfront, qtimers, liveByChat, alerts, deleted, qpoll, watcher, catchup, head, now, store, front, sent, lastHanded, calls, toggles, intervals, nextTid>>
  /\ UNCHANGED <<tid, seenMint, men>>
  /\ UNCHANGED encVars

\* processPending: sendCardWithResolved returned or threw
M_PendDeliver(p) ==
  /\ mpoll[p].pc = "pDeliver"
  /\ \E o \in SinkOutcomes :
       LET k == mpoll[p].snap[mpoll[p].j]
       IN IF o # "ok"
          THEN mpoll' = [mpoll EXCEPT ![p] = Rejected(p)] /\ UNCHANGED <<sent, pending>>
          ELSE /\ sent' = sent (+) SetToBag({MintCard(pobj[k].chatId, k, mpoll[p].user)})
               /\ pending' = Remove(pending, k)
               /\ PendLoop(p, [mpoll[p] EXCEPT !.user = NoName],
                           mpoll[p].j + 1, pobj)
  /\ UNCHANGED <<call, conf, pvpEnabled, qfront, qtimers, liveByChat, alerts, deleted, qpoll, watcher, catchup, head, now, store, front, lastHanded, calls, toggles, attrMap, intervals, nextTid>>
  /\ UNCHANGED <<tid, pobj, seenMint, men>>
  /\ UNCHANGED encVars

\* latestBlock() and getMintLogsAsc(from, head) returned, or one of them
\* threw; the loop over todo starts
M_PollScan(p) ==
  /\ mpoll[p].pc = "scan"
  /\ \E ok \in BOOLEAN :
       LET cur  == mpoll[p].s.lastCursor
           from == IF cur # NoCursor THEN cur.bn ELSE head
           todo == MintTodo(cur, head)
       IN IF ~ok
          THEN mpoll' = [mpoll EXCEPT ![p] = Rejected(p)] /\ UNCHANGED <<lastHanded, seenMint>>
          ELSE IF head < from \/ todo = <<>>
          THEN mpoll' = [mpoll EXCEPT ![p] = IdleMPoll] /\ UNCHANGED <<lastHanded, seenMint>>
          ELSE RowLoop(p, [mpoll[p] EXCEPT !.head = head, !.todo = todo], 1)
  /\ UNCHANGED <<call, conf, pvpEnabled, qfront, qtimers, liveByChat, alerts, deleted, qpoll, watcher, catchup, head, now, store, front, sent, calls, toggles, attrMap, intervals, nextTid>>
  /\ UNCHANGED <<tid, pending, pobj, men>>
  /\ UNCHANGED encVars

\* handleMint: tryResolveAttribution of row i returned or threw
M_RowResolve(p) ==
  /\ mpoll[p].pc = "mResolve"
  /\ \E w \in Worlds :
       LET row == mpoll[p].todo[mpoll[p].i]
           r   == tryResolveAttribution(attrMap, now, row.tokenId, w)
       IN IF r.threw
          THEN /\ attrMap' = r.attr
               /\ mpoll' = [mpoll EXCEPT ![p] = Rejected(p)]
               /\ UNCHANGED <<pending, pobj, lastHanded, seenMint>>
          ELSE IF r.username # NoName
          THEN /\ attrMap' = setFromEncounter(r.attr, now, row.tokenId, r.charId, r.username)
               /\ mpoll' = [mpoll EXCEPT ![p].pc = "mDeliver", ![p].user = r.username]
               /\ UNCHANGED <<pending, pobj, lastHanded, seenMint>>
          ELSE /\ attrMap' = r.attr
               /\ Enqueue(mpoll[p].chat, row.tokenId)
               /\ RowLoop(p, mpoll[p], mpoll[p].i + 1)
  /\ UNCHANGED <<call, conf, pvpEnabled, qfront, qtimers, liveByChat, alerts, deleted, qpoll, watcher, catchup, head, now, store, front, sent, calls, toggles, intervals, nextTid>>
  /\ UNCHANGED <<tid, men>>
  /\ UNCHANGED encVars

\* handleMint: sendCardWithResolved returned or threw
M_RowDeliver(p) ==
  /\ mpoll[p].pc = "mDeliver"
  /\ \E o \in SinkOutcomes :
       LET row == mpoll[p].todo[mpoll[p].i]
       IN IF o # "ok"
          THEN mpoll' = [mpoll EXCEPT ![p] = Rejected(p)] /\ UNCHANGED <<sent, lastHanded, seenMint>>
          ELSE /\ sent' = sent (+) SetToBag({MintCard(mpoll[p].chat, row.tokenId, mpoll[p].user)})
               /\ RowLoop(p, [mpoll[p] EXCEPT !.user = NoName],
                          mpoll[p].i + 1)
  /\ UNCHANGED <<call, conf, pvpEnabled, qfront, qtimers, liveByChat, alerts, deleted, qpoll, watcher, catchup, head, now, store, front, calls, toggles, attrMap, intervals, nextTid>>
  /\ UNCHANGED <<tid, pending, pobj, men>>
  /\ UNCHANGED encVars

\* setSession(chatId, s) landed
M_PollPersist(p) ==
  /\ mpoll[p].pc = "persist"
  /\ store' = [store EXCEPT ![mpoll[p].chat] = mpoll[p].s]
  /\ mpoll' = [mpoll EXCEPT ![p] = IdleMPoll]
  /\ UNCHANGED <<call, conf, pvpEnabled, qfront, qtimers, liveByChat, alerts, deleted, qpoll, watcher, catchup, head, now, front, sent, lastHanded, calls, toggles, attrMap, intervals, nextTid>>
  /\ UNCHANGED <<tid, pending, pobj, seenMint, men>>
  /\ UNCHANGED encVars

\* setInterval(() => { pollOnce(chatId); }, POLL_MS) and __pollOnce drop the
\* promise: the rejection is handled by nobody and the activation is over
M_Unhandled(p) ==
  /\ mpoll[p].pc = "rejected"
  /\ mpoll' = [mpoll EXCEPT ![p] = IdleMPoll]
  /\ UNCHANGED sharedVars
  /\ UNCHANGED <<tid, pending, pobj, seenMint, men>>
  /\ UNCHANGED encVars

(* ------------------------ mints: enable / pause ------------------------ *)
\* tid = setInterval(() => pollOnce(chatId), POLL_MS); enable returns
M_StartTimer(e) ==
  /\ intervals' = intervals \cup {[id |-> nextTid, chat |-> men[e].chat, token |-> NoToken]}
  /\ tid' = nextTid
  /\ nextTid' = nextTid + 1
  /\ men' = [men EXCEPT ![e] = IdleMEnable]

\* enable(chatId, session) up to its first await
M_EnableEnter(c) ==
  /\ watcher = "mints"
  /\ front[c].op = "enable"
  /\ \E e \in EnableIds :
       /\ men[e].pc = "idle"
       /\ men' = [men EXCEPT ![e] = [IdleMEnable EXCEPT !.pc = "write", !.chat = c, !.session = front[c].s]]
  /\ intervals' = { t \in intervals : t.id # tid }
  /\ tid' = 0
  /\ front' = [front EXCEPT ![c] = NoFront]
  /\ UNCHANGED <<call, conf, pvpEnabled, qfront, qtimers, liveByChat, alerts, deleted, qpoll, watcher, catchup, head, now, store, sent, lastHanded, calls, toggles, attrMap, nextTid>>
  /\ UNCHANGED <<pending, pobj, seenMint, mpoll>>
  /\ UNCHANGED encVars

\* pause(chatId)
M_Pause(c) ==
  /\ watcher = "mints"
  /\ front[c].op = "pause"
  /\ intervals' = { t \in intervals : t.id # tid }
  /\ tid' = 0
  /\ pending' = <<>>
  /\ front' = [front EXCEPT ![c] = NoFront]
  /\ UNCHANGED <<call, conf, pvpEnabled, qfront, qtimers, liveByChat, alerts, deleted, qpoll, watcher, catchup, head, now, store, sent, lastHanded, calls, toggles, attrMap, nextTid>>
  /\ UNCHANGED <<pobj, seenMint, mpoll, men>>
  /\ UNCHANGED encVars

\* the first setSession(chatId, session) landed
M_EnableWrite(e) ==
  /\ men[e].pc = "write"
  /\ store' = [store EXCEPT ![men[e].chat] = men[e].session]
  /\ men' = [men EXCEPT ![e].pc = "baseline"]
  /\ UNCHANGED <<call, conf, pvpEnabled, qfront, qtimers, liveByChat, alerts, deleted, qpoll, watcher, catchup, head, now, front, sent, lastHanded, calls, toggles, attrMap, intervals, nextTid>>
  /\ UNCHANGED <<tid, pending, pobj, seenMint, mpoll>>
  /\ UNCHANGED encVars

\* latestBlock() returned and the baseline setSession landed, or
\* latestBlock() threw; sendLatestMintOnce starts
M_EnableBaseline(e) ==
  /\ men[e].pc = "baseline"
  /\ \E ok \in BOOLEAN :
       IF ~ok THEN men' = [men EXCEPT ![e] = IdleMEnable] /\ UNCHANGED store
       ELSE LET s == [men[e].session EXCEPT !.lastCursor = [bn |-> head, txi |-> BaselineIndex, li |-> BaselineIndex]]
            IN /\ store' = [store EXCEPT ![men[e].chat] = s]
               /\ men' = [men EXCEPT ![e].pc = "latest", ![e].session = s]
  /\ UNCHANGED <<call, conf, pvpEnabled, qfront, qtimers, liveByChat, alerts, deleted, qpoll, watcher, catchup, head, now, front, sent, lastHanded, calls, toggles, attrMap, intervals, nextTid>>
  /\ UNCHANGED <<tid, pending, pobj, seenMint, mpoll>>
  /\ UNCHANGED encVars

\* sendLatestMintOnce: latestBlock, getMintLogsAsc and getSession returned
\* (or one of them threw); handleMint of the last row runs up to its await
M_Latest(e) ==
  /\ men[e].pc = "latest"
  /\ \E ok \in BOOLEAN :
       LET c    == men[e].chat
           rows == getMintLogsAsc(Max0(head - LIVE_LATEST_BACKSCAN), head)
           last == rows[Len(rows)]
           d    == seenWithTtl(seenMint[c], MintKey(last), last.bn, EVENT_DEDUP_TTL)
       IN IF ~ok
          THEN /\ men' = [men EXCEPT ![e] = IdleMEnable]
               /\ UNCHANGED <<lastHanded, seenMint, intervals, tid, nextTid>>
          ELSE IF rows = <<>>
          THEN M_StartTimer(e) /\ UNCHANGED <<lastHanded, seenMint>>
          ELSE IF d.hit
          THEN M_StartTimer(e) /\ Hand(c, last) /\ UNCHANGED seenMint
          ELSE /\ men' = [men EXCEPT ![e].pc = "lResolve", ![e].row = last.tokenId]
               /\ Hand(c, last)
               /\ seenMint' = [seenMint EXCEPT ![c] = d.map]
               /\ UNCHANGED <<intervals, tid, nextTid>>
  /\ UNCHANGED <<call, conf, pvpEnabled, qfront, qtimers, liveByChat, alerts, deleted, qpoll, watcher, catchup, head, now, store, front, sent, calls, toggles, attrMap>>
  /\ UNCHANGED <<pending, pobj, mpoll>>
  /\ UNCHANGED encVars

\* sendLatestMintOnce: tryResolveAttribution returned or threw
M_LatestResolve(e) ==
  /\ men[e].pc = "lResolve"
  /\ \E w \in Worlds :
       LET k == men[e].row
           r == tryResolveAttribution(attrMap, now, k, w)
       IN IF r.threw
          THEN /\ attrMap' = r.attr
               /\ men' = [men EXCEPT ![e] = IdleMEnable]
               /\ UNCHANGED <<pending, pobj, intervals, tid, nextTid>>
          ELSE IF r.username # NoName
          THEN /\ attrMap' = setFromEncounter(r.attr, now, k, r.charId, r.username)
               /\ men' = [men EXCEPT ![e].pc = "lDeliver", ![e].user = r.username]
               /\ UNCHANGED <<pending, pobj, intervals, tid, nextTid>>
          ELSE /\ attrMap' = r.attr
               /\ Enqueue(men[e].chat, k)
               /\ M_StartTimer(e)
  /\ UNCHANGED <<call, conf, pvpEnabled, qfront, qtimers, liveByChat, alerts, deleted, qpoll, watcher, catchup, head, now, store, front, sent, lastHanded, calls, toggles>>
  /\ UNCHANGED <<seenMint, mpoll>>
  /\ UNCHANGED encVars

\* sendLatestMintOnce: sendCardWithResolved returned or threw
M_LatestDeliver(e) ==
  /\ men[e].pc = "lDeliver"
  /\ \E o \in SinkOutcomes :
       IF o # "ok"
       THEN men' = [men EXCEPT ![e] = IdleMEnable] /\ UNCHANGED <<sent, intervals, tid, nextTid>>
       ELSE /\ sent' = sent (+) SetToBag({MintCard(men[e].chat, men[e].row, men[e].user)})
            /\ M_StartTimer(e)
  /\ UNCHANGED <<call, conf, pvpEnabled, qfront, qtimers, liveByChat, alerts, deleted, qpoll, watcher, catchup, head, now, store, front, lastHanded, calls, toggles, attrMap>>
  /\ UNCHANGED <<pending, pobj, seenMint, mpoll>>
  /\ UNCHANGED encVars

(* --------------------------- mints: front end -------------------------- *)
\* bot.callbackQuery("menu:toggle"): read, flip, write; the enable or pause
\* call is queued as a microtask
ToggleMint(c) ==
  /\ watcher = "mints"
  /\ toggles < MaxToggles
  /\ front[c].op = "none"
  /\ LET s == [store[c] EXCEPT !.enabled = ~@]
     IN /\ store' = [store EXCEPT ![c] = s]
        /\ front' = [front EXCEPT ![c] = [op |-> IF s.enabled THEN "enable" ELSE "pause", s |-> s]]
  /\ toggles' = toggles + 1
  /\ UNCHANGED <<call, conf, pvpEnabled, qfront, qtimers, liveByChat, alerts, deleted, qpoll, watcher, catchup, head, now, sent, lastHanded, calls, attrMap, intervals, nextTid>>
  /\ UNCHANGED encVars
  /\ UNCHANGED mintVars

\* Date.now() grows; the model looks at the clock only while an entry waits
\* in the pending queue, where the backoff reads it
ClockAdvance ==
  /\ watcher = "mints"
  /\ pending # <<>>
  /\ \E t \in Times : t > now /\ now' = t
  /\ UNCHANGED <<call, conf, pvpEnabled, qfront, qtimers, liveByChat, alerts, deleted, qpoll, watcher, catchup, head, store, front, sent, lastHanded, calls, toggles, attrMap, intervals, nextTid>>
  /\ UNCHANGED encVars
  /\ UNCHANGED mintVars

(* ------------------------------ rpc helper ----------------------------- *)
\* rpc(fn, label, tries = 5) of the three watchers.  An error message is
\* modelled by its text and by the alternatives of the three regular
\* expressions that occur in it, lower-cased (the expressions carry /i).
Messages ==
  { [text |-> "limit exceeded",             has |-> {"limit exceeded", "limit"}],
    [text |-> "rate limit reached",         has |-> {"limit"}],
    [text |-> "temporarily unavailable",    has |-> {"temporar", "tempor"}],
    [text |-> "request timeout",            has |-> {"timeout"}],
    [text |-> "connect ETIMEDOUT",          has |-> {"etimedout"}],
    [text |-> "BAD_DATA",                   has |-> {"bad_data"}],
    [text |-> "missing response",           has |-> {"missing response"}],
    [text |-> "502 Bad Gateway",            has |-> {"gateway"}],
    [text |-> "read ECONNRESET",            has |-> {"econn"}],
    [text |-> "Unexpected token < in JSON", has |-> {"json"}],
    [text |-> "execution reverted",         has |-> {}] }
NoError == [text |-> "", has |-> {}]

Families == {"encounters", "mints", "pvp"}

\* the alternatives of the watcher's regular expression
Alternatives(family) ==
  IF family = "pvp"
  THEN {"tempor", "timeout", "limit", "bad_data", "missing response", "gateway", "econn", "etimedout", "json"}
  ELSE {"limit exceeded", "temporar", "timeout", "bad_data", "missing response", "gateway"}

\* /.../i.test(msg), answering TRUE for every message
retryableAlways(family, msg) == TRUE

\* /.../i.test(msg)
retryable(family, msg) == Alternatives(family) \cap msg.has # {}

\* tries = 5, the default every caller uses
tries == 5

\* let delay = 250 (220 in the pvp watcher); Math.min(delay * 2, 2000 (1600))
FirstDelay(family) == IF family = "pvp" THEN 220 ELSE 250
\* a doubling without the cap; C26 tells the two apart
NextDelayUncapped(family, delay) == delay * 2

NextDelay(family, delay) ==
  LET cap == IF family = "pvp" THEN 1600 ELSE 2000
  IN IF delay * 2 < cap THEN delay * 2 ELSE cap

\* label: the call's label; wait: the argument of the last sleep; thrown:
\* the value rpc threw
IdleRpc == [pc |-> "idle", family |-> "", label |-> "", i |-> 0, delay |-> 0, invoked |-> 0,
            slept |-> 0, wait |-> 0, e |-> NoError, thrown |-> NoError]

\* rpc(fn, label) is called: let delay; i = 0
RpcStart ==
  /\ call.pc = "idle"
  /\ \E f \in Families, l \in {"getBlockNumber", "getLogs:SetRecord:100-105"} :
       call' = [IdleRpc EXCEPT !.pc = "try", !.family = f, !.label = l, !.delay = FirstDelay(f)]
  /\ UNCHANGED <<conf, pvpEnabled, qfront, qtimers, liveByChat, alerts, deleted, qpoll, watcher, catchup, head, now, store, front, sent, lastHanded, calls, toggles, attrMap, intervals, nextTid>>
  /\ UNCHANGED encVars
  /\ UNCHANGED mintVars

\* await fn() returned or threw; the catch block up to its await:
\* `throw e`, or sleep(delay + Math.floor(Math.random() * 100))
RpcTry ==
  /\ call.pc = "try"
  /\ \/ call' = [call EXCEPT !.pc = "returned", !.invoked = @ + 1]
     \/ \E msg \in Messages, jitter \in {0, 99} :
          IF ~retryable(call.family, msg) \/ call.i = tries - 1
          THEN call' = [call EXCEPT !.pc = "threw", !.invoked = @ + 1, !.e = msg, !.thrown = msg]
          ELSE call' = [call EXCEPT !.pc = "sleep", !.invoked = @ + 1, !.e = msg,
                                    !.wait = call.delay + jitter]
  /\ UNCHANGED <<conf, pvpEnabled, qfront, qtimers, liveByChat, alerts, deleted, qpoll, watcher, catchup, head, now, store, front, sent, lastHanded, calls, toggles, attrMap, intervals, nextTid>>
  /\ UNCHANGED encVars
  /\ UNCHANGED mintVars

\* the wake-up of a loop that does not count its attempts; C25 tells the two
\* apart
RpcWakeNoCount ==
  /\ call.pc = "sleep"
  /\ call' = [call EXCEPT !.pc = "try", !.slept = @ + 1,
                          !.delay = NextDelay(call.family, @)]
  /\ UNCHANGED <<conf, pvpEnabled, qfront, qtimers, liveByChat, alerts, deleted, qpoll, watcher, catchup, head, now, store, front, sent, lastHanded, calls, toggles, attrMap, intervals, nextTid>>
  /\ UNCHANGED encVars
  /\ UNCHANGED mintVars

\* await sleep(delay + jitter) is over; delay doubles, i++
RpcWake ==
  /\ call.pc = "sleep"
  /\ call' = [call EXCEPT !.pc = "try", !.slept = @ + 1, !.i = @ + 1,
                          !.delay = NextDelay(call.family, @)]
  /\ UNCHANGED <<conf, pvpEnabled, qfront, qtimers, liveByChat, alerts, deleted, qpoll, watcher, catchup, head, now, store, front, sent, lastHanded, calls, toggles, attrMap, intervals, nextTid>>
  /\ UNCHANGED encVars
  /\ UNCHANGED mintVars

(* --------------------------- specification ----------------------------- *)
NextEnc ==
  \/ TimerTick
  \/ ManualPoll
  \/ \E p \in PollIds : PollSession(p) \/ PollHead(p) \/ PollScan(p) \/ PollRow(p) \/ PollPersist(p)
  \/ \E c \in Subscribers : ToggleEnc(c) \/ EnableEnter(c) \/ Pause(c)
  \/ \E e \in EnableIds : EnableWrite(e) \/ EnableHead(e) \/ EnableBaseline(e)
  \/ \E e \in EnableIds : BfScan(e) \/ BfSession(e) \/ BfEnabled(e) \/ BfRow(e) \/ BfPersist(e)
  \/ ChainAdvance

NextMint ==
  \/ M_TimerTick
  \/ M_ManualPoll
  \/ \E p \in PollIds : M_PollSession(p) \/ M_PendResolve(p) \/ M_PendDeliver(p)
  \/ \E p \in PollIds : M_PollScan(p) \/ M_RowResolve(p) \/ M_RowDeliver(p) \/ M_PollPersist(p)
  \/ \E p \in PollIds : M_Unhandled(p)
  \/ \E c \in Subscribers : ToggleMint(c) \/ M_EnableEnter(c) \/ M_Pause(c)
  \/ \E e \in EnableIds : M_EnableWrite(e) \/ M_EnableBaseline(e)
  \/ \E e \in EnableIds : M_Latest(e) \/ M_LatestResolve(e) \/ M_LatestDeliver(e)
  \/ ChainAdvance
  \/ ClockAdvance

(* -------------------------- PvP queue watcher -------------------------- *)
\* no PvP toggle was pressed in this process: the flag is off, no timer, no
\* tracked alert, nothing sent, no pollOnce in flight
PvpOff ==
  /\ pvpEnabled = [c \in Chats |-> FALSE]
  /\ qfront = [c \in Chats |-> "none"]
  /\ qtimers = [c \in Chats |-> FALSE]
  /\ liveByChat = [c \in Chats |-> EmptyMap]
  /\ alerts = <<>>
  /\ deleted = EmptyBag
  /\ qpoll = [p \in PollIds |-> [pc |-> "idle", done |-> FALSE, chat |-> 0, start |-> {}, snap |-> {},
                                 prev |-> EmptyMap, next |-> EmptyMap, todo |-> <<>>, gone |-> <<>>,
                                 sentK |-> <<>>, delK |-> <<>>]]

\* bot.callbackQuery("menu:toggle:pvp"): read, flip, write; the enable or
\* pause call is queued as a microtask
Q_Toggle(c) ==
  /\ toggles < MaxToggles
  /\ qfront[c] = "none"
  /\ pvpEnabled' = [pvpEnabled EXCEPT ![c] = ~@]
  /\ qfront' = [qfront EXCEPT ![c] = IF pvpEnabled[c] THEN "pause" ELSE "enable"]
  /\ toggles' = toggles + 1
  /\ UNCHANGED <<qtimers, liveByChat, alerts, deleted, qpoll>>
  /\ UNCHANGED <<call, conf, watcher, catchup, head, now, store, front, sent, lastHanded, calls, attrMap, intervals, nextTid>>
  /\ UNCHANGED encVars
  /\ UNCHANGED mintVars

\* enable(chatId, session) once its setSession landed: the old timer is
\* cleared, the tracked map replaced by a new one, the interval registered
\* and the immediate pass started (the microtask runs before anything else)
Q_Enable(c) ==
  /\ qfront[c] = "enable"
  /\ \E p \in PollIds :
       /\ qpoll[p].pc = "idle"
       /\ qpoll' = [qpoll EXCEPT ![p] = [pc |-> "session", done |-> FALSE, chat |-> c, start |-> {},
                                         snap |-> {}, prev |-> EmptyMap, next |-> EmptyMap,
                                         todo |-> <<>>, gone |-> <<>>, sentK |-> <<>>, delK |-> <<>>]]
  /\ pvpEnabled' = [pvpEnabled EXCEPT ![c] = TRUE]
  /\ qtimers' = [qtimers EXCEPT ![c] = TRUE]
  /\ liveByChat' = [liveByChat EXCEPT ![c] = EmptyMap]
  /\ qfront' = [qfront EXCEPT ![c] = "none"]
  /\ UNCHANGED <<alerts, deleted>>
  /\ UNCHANGED <<call, conf, watcher, catchup, head, now, store, front, sent, lastHanded, calls, toggles, attrMap, intervals, nextTid>>
  /\ UNCHANGED encVars
  /\ UNCHANGED mintVars

\* pause(chatId)
Q_Pause(c) ==
  /\ qfront[c] = "pause"
  /\ qtimers' = [qtimers EXCEPT ![c] = FALSE]
  /\ liveByChat' = [liveByChat EXCEPT ![c] = EmptyMap]
  /\ qfront' = [qfront EXCEPT ![c] = "none"]
  /\ UNCHANGED <<pvpEnabled, alerts, deleted, qpoll>>
  /\ UNCHANGED <<call, conf, watcher, catchup, head, now, store, front, sent, lastHanded, calls, toggles, attrMap, intervals, nextTid>>
  /\ UNCHANGED encVars
  /\ UNCHANGED mintVars

\* setInterval(() => pollOnce(chatId), POLL_MS) fires: pollOnce up to its
\* first await
Q_Tick ==
  /\ calls < MaxCalls
  /\ \E c \in Chats, p \in PollIds :
       /\ qtimers[c]
       /\ qpoll[p].pc = "idle"
       /\ qpoll' = [qpoll EXCEPT ![p] = [pc |-> "session", done |-> FALSE, chat |-> c,
                                         start |-> DOMAIN liveByChat[c],
                                         snap |-> {}, prev |-> EmptyMap, next |-> EmptyMap,
                                         todo |-> <<>>, gone |-> <<>>, sentK |-> <<>>, delK |-> <<>>]]
  /\ calls' = calls + 1
  /\ UNCHANGED <<pvpEnabled, qfront, qtimers, liveByChat, alerts, deleted>>
  /\ UNCHANGED <<call, conf, watcher, catchup, head, now, store, front, sent, lastHanded, toggles, attrMap, intervals, nextTid>>
  /\ UNCHANGED encVars
  /\ UNCHANGED mintVars

\* pollOnce without the carry-forward: every queued player counts as a new
\* entrant; C39 tells the two apart
Q_PollResend(p) ==
  LET th   == qpoll[p]
      c    == th.chat
      Run(t) ==
        IF t.todo # <<>> THEN qpoll' = [qpoll EXCEPT ![p] = [t EXCEPT !.pc = "alert"]] /\ UNCHANGED liveByChat
        ELSE IF t.gone # <<>> THEN qpoll' = [qpoll EXCEPT ![p] = [t EXCEPT !.pc = "delete"]] /\ UNCHANGED liveByChat
        ELSE /\ qpoll' = [qpoll EXCEPT ![p] = [t EXCEPT !.pc = "idle", !.done = TRUE]]
             /\ liveByChat' = [liveByChat EXCEPT ![c] = t.next]
  IN /\ \/ \* getSession returned
           /\ th.pc = "session"
           /\ qpoll' = [qpoll EXCEPT ![p].pc = IF pvpEnabled[c] THEN "fetch" ELSE "idle"]
           /\ UNCHANGED <<liveByChat, alerts, deleted>>
        \/ \* the four queue reads returned or failed; prev is read, the
           \* players still queued are carried forward
           /\ th.pc = "fetch"
           /\ \E snap \in SUBSET {<<3, 1>>, <<4, 2>>} :
                LET prev  == liveByChat[c]
                    order == <<<<3, 1>>, <<4, 2>>>>
                IN Run([th EXCEPT !.snap = snap, !.prev = prev,
                                  !.next = EmptyMap,
                                  !.todo = SelectSeq(order, LAMBDA k : k \in snap),
                                  !.gone = SelectSeq(order, LAMBDA k : k \in DOMAIN prev /\ k \notin snap)])
           /\ UNCHANGED <<alerts, deleted>>
        \/ \* sendAlert of the next new entrant returned its message id, or
           \* threw: pollOnce has no try/catch around it and ends there
           /\ th.pc = "alert"
           /\ \E ok \in BOOLEAN :
                IF ~ok
                THEN /\ qpoll' = [qpoll EXCEPT ![p].pc = "idle"]
                     /\ UNCHANGED <<liveByChat, alerts>>
                ELSE LET k == Head(th.todo)
                     IN /\ alerts' = Append(alerts, [chat |-> c, key |-> k])
                        /\ Run([th EXCEPT !.next = [x \in DOMAIN th.next \cup {k} |->
                                                      IF x = k THEN Len(alerts) + 1 ELSE th.next[x]],
                                          !.todo = Tail(th.todo),
                                          !.sentK = Append(th.sentK, k)])
           /\ UNCHANGED deleted
        \/ \* deleteAlert of the next leaver returned or threw (caught)
           /\ th.pc = "delete"
           /\ LET k == Head(th.gone)
              IN /\ deleted' = deleted (+) SetToBag({th.prev[k]})
                 /\ Run([th EXCEPT !.gone = Tail(th.gone), !.delK = Append(th.delK, k)])
           /\ UNCHANGED alerts
     /\ UNCHANGED <<pvpEnabled, qfront, qtimers>>
     /\ UNCHANGED <<call, conf, watcher, catchup, head, now, store, front, sent, lastHanded, calls, toggles, attrMap, intervals, nextTid>>
     /\ UNCHANGED encVars
     /\ UNCHANGED mintVars

\* pollOnce(chatId) from its first await on, one awaited call at a time.  A
\* key is <<battleType, characterId>>; the queues hold at most the two
\* players <<3, 1>> and <<4, 2>>, and a fetch that fails counts as an empty
\* queue.  The loops run synchronously up to their next await; the tick ends
\* with liveByChat.set(chatId, next).
Q_Poll(p) ==
  LET th   == qpoll[p]
      c    == th.chat
      Run(t) ==
        IF t.todo # <<>> THEN qpoll' = [qpoll EXCEPT ![p] = [t EXCEPT !.pc = "alert"]] /\ UNCHANGED liveByChat
        ELSE IF t.gone # <<>> THEN qpoll' = [qpoll EXCEPT ![p] = [t EXCEPT !.pc = "delete"]] /\ UNCHANGED liveByChat
        ELSE /\ qpoll' = [qpoll EXCEPT ![p] = [t EXCEPT !.pc = "idle", !.done = TRUE]]
             /\ liveByChat' = [liveByChat EXCEPT ![c] = t.next]
  IN /\ \/ \* getSession returned
           /\ th.pc = "session"
           /\ qpoll' = [qpoll EXCEPT ![p].pc = IF pvpEnabled[c] THEN "fetch" ELSE "idle"]
           /\ UNCHANGED <<liveByChat, alerts, deleted>>
        \/ \* the four queue reads returned or failed; prev is read, the
           \* players still queued are carried forward
           /\ th.pc = "fetch"
           /\ \E snap \in SUBSET {<<3, 1>>, <<4, 2>>} :
                LET prev  == liveByChat[c]
                    order == <<<<3, 1>>, <<4, 2>>>>
                IN Run([th EXCEPT !.snap = snap, !.prev = prev,
                                  !.next = [k \in snap \cap DOMAIN prev |-> prev[k]],
                                  !.todo = SelectSeq(order, LAMBDA k : k \in snap /\ k \notin DOMAIN prev),
                                  !.gone = SelectSeq(order, LAMBDA k : k \in DOMAIN prev /\ k \notin snap)])
           /\ UNCHANGED <<alerts, deleted>>
        \/ \* sendAlert of the next new entrant returned its message id, or
           \* threw: pollOnce has no try/catch around it and ends there
           /\ th.pc = "alert"
           /\ \E ok \in BOOLEAN :
                IF ~ok
                THEN /\ qpoll' = [qpoll EXCEPT ![p].pc = "idle"]
                     /\ UNCHANGED <<liveByChat, alerts>>
                ELSE LET k == Head(th.todo)
                     IN /\ alerts' = Append(alerts, [chat |-> c, key |-> k])
                        /\ Run([th EXCEPT !.next = [x \in DOMAIN th.next \cup {k} |->
                                                      IF x = k THEN Len(alerts) + 1 ELSE th.next[x]],
                                          !.todo = Tail(th.todo),
                                          !.sentK = Append(th.sentK, k)])
           /\ UNCHANGED deleted
        \/ \* deleteAlert of the next leaver returned or threw (caught)
           /\ th.pc = "delete"
           /\ LET k == Head(th.gone)
              IN /\ deleted' = deleted (+) SetToBag({th.prev[k]})
                 /\ Run([th EXCEPT !.gone = Tail(th.gone), !.delK = Append(th.delK, k)])
           /\ UNCHANGED alerts
     /\ UNCHANGED <<pvpEnabled, qfront, qtimers>>
     /\ UNCHANGED <<call, conf, watcher, catchup, head, now, store, front, sent, lastHanded, calls, toggles, attrMap, intervals, nextTid>>
     /\ UNCHANGED encVars
     /\ UNCHANGED mintVars

(* ------------------------------ start states --------------------------- *)
\* nothing in flight, nothing queued, nothing sent
Quiet ==
  /\ front = [c \in Chats |-> NoFront]
  /\ sent = EmptyBag
  /\ calls = 0
  /\ toggles = 0
  /\ en = [e \in EnableIds |-> IdleEnable]
  /\ men = [e \in EnableIds |-> IdleMEnable]
  /\ pending = <<>>
  /\ pobj = [k \in Tokens |-> NoPending]

\* no pollOnce in flight
NoTick ==
  /\ locks = [c \in Chats |-> FALSE]
  /\ poll = [p \in PollIds |-> IdlePoll]
  /\ mpoll = [p \in PollIds |-> IdleMPoll]
  /\ lastHanded = [c \in Chats |-> NoCursor]

\* the module-level maps of a process that has just started
FreshMaps ==
  /\ seenEvent = [c \in Chats |-> EmptyMap]
  /\ seenSticky = [c \in Chats |-> EmptyMap]
  /\ seenMint = [c \in Chats |-> EmptyMap]

\* no enable has run in this process
Stopped ==
  /\ intervals = {}
  /\ nextTid = 1
  /\ timers = [c \in Chats |-> 0]
  /\ runToken = [c \in Chats |-> Undef]
  /\ tid = 0

\* one enable has run to its end: its timer is live
Polling ==
  /\ intervals = { [id |-> 1, chat |-> c, token |-> IF watcher = "encounters" THEN 1 ELSE NoToken] : c \in Chats }
  /\ nextTid = 2
  /\ timers = [c \in Chats |-> IF watcher = "encounters" THEN 1 ELSE 0]
  /\ runToken = [c \in Chats |-> IF watcher = "encounters" THEN 1 ELSE Undef]
  /\ tid = IF watcher = "mints" THEN 1 ELSE 0

(* --------------------------- specifications ---------------------------- *)
\* the bot built with the encounters watcher, from process start
Init ==
  /\ call = IdleRpc
  /\ PvpOff
  /\ conf = [batch |-> BLOCK_BATCH, limit |-> BACKFILL_LIMIT]
  /\ watcher = "encounters" /\ catchup \in BOOLEAN
  /\ store \in [Chats -> {Fresh, Resumed}]
  /\ head = 100 /\ now = 0 /\ attrMap = <<>>
  /\ Quiet /\ NoTick /\ FreshMaps /\ Stopped
Next == NextEnc
Spec == Init /\ [][Next]_vars

\* the bot built with the mints watcher, from process start
InitM ==
  /\ call = IdleRpc
  /\ PvpOff
  /\ conf = [batch |-> BLOCK_BATCH, limit |-> BACKFILL_LIMIT]
  /\ watcher = "mints" /\ catchup = FALSE
  /\ store = [c \in Chats |-> Resumed]
  /\ head = 100 /\ now = 0 /\ attrMap = <<>>
  /\ Quiet /\ NoTick /\ FreshMaps /\ Stopped
SpecMint == InitM /\ [][NextMint]_vars

\* either watcher while it polls live: timer ticks and manual pollOnce calls,
\* no toggle
InitLive ==
  /\ call = IdleRpc
  /\ PvpOff
  /\ conf = [batch |-> BLOCK_BATCH, limit |-> BACKFILL_LIMIT]
  /\ watcher \in {"encounters", "mints"} /\ catchup = FALSE
  /\ store = [c \in Chats |-> Resumed]
  /\ head = 100 /\ now = 0 /\ attrMap = <<>>
  /\ Quiet /\ NoTick /\ FreshMaps /\ Polling
NextLive ==
  \/ TimerTick
  \/ ManualPoll
  \/ \E p \in PollIds : PollSession(p) \/ PollHead(p) \/ PollScan(p) \/ PollRow(p) \/ PollPersist(p)
  \/ M_TimerTick
  \/ M_ManualPoll
  \/ \E p \in PollIds : M_PollSession(p) \/ M_PendResolve(p) \/ M_PendDeliver(p)
  \/ \E p \in PollIds : M_PollScan(p) \/ M_RowResolve(p) \/ M_RowDeliver(p) \/ M_PollPersist(p)
  \/ \E p \in PollIds : M_Unhandled(p)
  \/ ChainAdvance
  \/ ClockAdvance
SpecLive == InitLive /\ [][NextLive]_vars

\* the encounters watcher polling, started with a small batch size or the
\* default one and with or without a row cap, the chain at any height
InitConf ==
  /\ call = IdleRpc
  /\ PvpOff
  /\ conf \in [batch : (1..MaxBatch) \cup {BLOCK_BATCH}, limit : {BACKFILL_LIMIT, 2}]
  /\ watcher = "encounters" /\ catchup = FALSE
  /\ store = [c \in Chats |-> Resumed]
  /\ head \in 100..(MaxHead - 1) /\ now = 0 /\ attrMap = <<>>
  /\ Quiet /\ NoTick /\ FreshMaps /\ Polling
NextConf ==
  \/ TimerTick
  \/ ManualPoll
  \/ \E p \in PollIds : PollSession(p) \/ PollHead(p) \/ PollScan(p) \/ PollRow(p) \/ PollPersist(p)
  \/ ChainAdvance
SpecConf == InitConf /\ [][NextConf]_vars

\* the mints watcher polling for ever: the timer keeps firing, every awaited
\* call settles and the clock moves on
InitPend == InitLive /\ watcher = "mints"
NextPend ==
  \/ M_TickAgain
  \/ \E p \in PollIds : M_PollSession(p) \/ M_PendResolve(p) \/ M_PendDeliver(p)
  \/ \E p \in PollIds : M_PollScan(p) \/ M_RowResolve(p) \/ M_RowDeliver(p) \/ M_PollPersist(p)
  \/ \E p \in PollIds : M_Unhandled(p)
  \/ ChainAdvance
  \/ ClockAdvance
SpecPend ==
  /\ InitPend /\ [][NextPend]_vars
  /\ WF_vars(M_TickAgain)
  /\ WF_vars(ClockAdvance)
  /\ \A p \in PollIds :
       WF_vars(M_PollSession(p) \/ M_PendResolve(p) \/ M_PendDeliver(p) \/ M_PollScan(p)
                 \/ M_RowResolve(p) \/ M_RowDeliver(p) \/ M_PollPersist(p) \/ M_Unhandled(p))

\* either watcher being switched on and off from process start, live-only,
\* with its timer firing; nobody presses the manual sync
InitEnable ==
  /\ call = IdleRpc
  /\ PvpOff
  /\ conf = [batch |-> BLOCK_BATCH, limit |-> BACKFILL_LIMIT]
  /\ watcher \in {"encounters", "mints"} /\ catchup = FALSE
  /\ store = [c \in Chats |-> Fresh]
  /\ head = 100 /\ now = 0 /\ attrMap = <<>>
  /\ Quiet /\ NoTick /\ FreshMaps /\ Stopped
NextEnable ==
  \/ TimerTick
  \/ \E p \in PollIds : PollSession(p) \/ PollHead(p) \/ PollScan(p) \/ PollRow(p) \/ PollPersist(p)
  \/ \E c \in Subscribers : ToggleEnc(c) \/ EnableEnter(c) \/ Pause(c)
  \/ \E e \in EnableIds : EnableWrite(e) \/ EnableHead(e) \/ EnableBaseline(e)
  \/ M_TimerTick
  \/ \E p \in PollIds : M_PollSession(p) \/ M_PendResolve(p) \/ M_PendDeliver(p)
  \/ \E p \in PollIds : M_PollScan(p) \/ M_RowResolve(p) \/ M_RowDeliver(p) \/ M_PollPersist(p)
  \/ \E p \in PollIds : M_Unhandled(p)
  \/ \E c \in Subscribers : ToggleMint(c) \/ M_EnableEnter(c) \/ M_Pause(c)
  \/ \E e \in EnableIds : M_EnableWrite(e) \/ M_EnableBaseline(e)
  \/ \E e \in EnableIds : M_Latest(e) \/ M_LatestResolve(e) \/ M_LatestDeliver(e)
  \/ ChainAdvance
  \/ ClockAdvance
SpecEnable == InitEnable /\ [][NextEnable]_vars

\* one rpc call of any of the three watchers, with every answer the wrapped
\* call can give at every attempt
InitRpc ==
  /\ call = IdleRpc
  /\ PvpOff
  /\ conf = [batch |-> BLOCK_BATCH, limit |-> BACKFILL_LIMIT]
  /\ watcher = "encounters" /\ catchup = FALSE
  /\ store = [c \in Chats |-> Resumed]
  /\ head = 100 /\ now = 0 /\ attrMap = <<>>
  /\ Quiet /\ NoTick /\ FreshMaps /\ Stopped
NextRpc == RpcStart \/ RpcTry \/ RpcWake
SpecRpc == InitRpc /\ [][NextRpc]_vars
\* the same with every wrapped call settling (the provider's request times
\* out by itself) and every sleep timer firing
SpecRpcFair == SpecRpc /\ WF_vars(RpcTry) /\ WF_vars(RpcWake)

\* the mints watcher serving two chats.  Chat 1 was enabled and is polling:
\* its last tick found both mints without attribution, queued them and
\* persisted the cursor.  Chat 2 has a session and was never enabled.  The
\* chain stands at its last block and no timer fires while the chats are
\* switched on and off.
InitTwo ==
  /\ call = IdleRpc
  /\ PvpOff
  /\ conf = [batch |-> BLOCK_BATCH, limit |-> BACKFILL_LIMIT]
  /\ watcher = "mints" /\ catchup = FALSE
  /\ head = MaxHead /\ now = 0 /\ attrMap = <<>>
  /\ LET todo == MintTodo(Resumed.lastCursor, MaxHead)
         m1   == seenWithTtl(EmptyMap, MintKey(todo[1]), todo[1].bn, EVENT_DEDUP_TTL).map
         m2   == seenWithTtl(m1, MintKey(todo[2]), todo[2].bn, EVENT_DEDUP_TTL).map
     IN /\ store = [c \in {1, 2} |-> IF c = 1 THEN [Resumed EXCEPT !.lastCursor = Key(todo[2])] ELSE Fresh]
        /\ pending = <<todo[1].tokenId, todo[2].tokenId>>
        /\ pobj = [k \in Tokens |-> [chatId |-> 1, attempts |-> 0, firstSeen |-> 0]]
        /\ seenMint = [c \in Subscribers |-> IF c = 1 THEN m2 ELSE EmptyMap]
        /\ lastHanded = [c \in Subscribers |-> IF c = 1 THEN Key(todo[2]) ELSE NoCursor]
  /\ front = [c \in Subscribers |-> NoFront]
  /\ sent = EmptyBag /\ calls = 0 /\ toggles = 0
  /\ en = [e \in EnableIds |-> IdleEnable]
  /\ men = [e \in EnableIds |-> IdleMEnable]
  /\ locks = [c \in Subscribers |-> FALSE]
  /\ poll = [p \in PollIds |-> IdlePoll]
  /\ mpoll = [p \in PollIds |-> IdleMPoll]
  /\ seenEvent = [c \in Subscribers |-> EmptyMap]
  /\ seenSticky = [c \in Subscribers |-> EmptyMap]
  /\ intervals = {[id |-> 1, chat |-> 1, token |-> NoToken]}
  /\ nextTid = 2
  /\ tid = 1
  /\ timers = [c \in Subscribers |-> 0]
  /\ runToken = [c \in Subscribers |-> Undef]
NextTwo ==
  \/ \E c \in Subscribers : ToggleMint(c) \/ M_EnableEnter(c) \/ M_Pause(c)
  \/ \E e \in EnableIds : M_EnableWrite(e) \/ M_EnableBaseline(e)
  \/ \E e \in EnableIds : M_Latest(e) \/ M_LatestResolve(e) \/ M_LatestDeliver(e)
  \/ ClockAdvance
SpecTwo == InitTwo /\ [][NextTwo]_vars

\* one encounters tick after its scan returned, over a chain on which
\* character 1 meets the same opponent at blocks 101 .. 1050 and character 2
\* meets another at block 102
DedupRows ==
  << [bn |-> 101,  txi |-> 0, li |-> 0, h |-> "d1", charId |-> 1, ok |-> TRUE],
     [bn |-> 102,  txi |-> 0, li |-> 0, h |-> "d2", charId |-> 2, ok |-> TRUE],
     [bn |-> 500,  txi |-> 0, li |-> 0, h |-> "d3", charId |-> 1, ok |-> TRUE],
     [bn |-> 1001, txi |-> 0, li |-> 0, h |-> "d4", charId |-> 1, ok |-> TRUE],
     [bn |-> 1002, txi |-> 0, li |-> 0, h |-> "d5", charId |-> 1, ok |-> TRUE],
     [bn |-> 1050, txi |-> 0, li |-> 0, h |-> "d6", charId |-> 1, ok |-> TRUE] >>

\* the rows of DedupRows picked by a set of indices, in ascending order
Pick(S) == SelectSeq(DedupRows, LAMBDA r : \E k \in S : DedupRows[k] = r)

\* the sticky map of a chat that has seen n other pairs at block 100; the
\* event map starts empty, as the insertion that exceeds the ceiling leaves it
StickyFill(n) == [k \in { <<1000 + j, 2000 + j>> : j \in 1..n } |-> 100 + STICKY_TTL]

InitDedup ==
  /\ call = IdleRpc
  /\ PvpOff
  /\ conf = [batch |-> BLOCK_BATCH, limit |-> BACKFILL_LIMIT]
  /\ watcher = "encounters" /\ catchup = FALSE
  /\ store = [c \in Chats |-> Resumed]
  /\ head = 1050 /\ now = 0 /\ attrMap = <<>>
  /\ Quiet /\ Polling
  /\ seenMint = [c \in Chats |-> EmptyMap]
  /\ mpoll = [p \in PollIds |-> IdleMPoll]
  /\ locks = [c \in Chats |-> TRUE]
  /\ \E S \in (SUBSET (1..Len(DedupRows))) \ {{}}, n \in {0, SeenCeiling - 1} :
       /\ n > 0 => S \in {{1, 3}, {1, 2, 3}}
       /\ seenEvent = [c \in Chats |-> EmptyMap]
       /\ seenSticky = [c \in Chats |-> StickyFill(n)]
       /\ poll = [p \in PollIds |-> IF p = 1
                    THEN [IdlePoll EXCEPT !.pc = "row", !.chat = 1, !.tk = 1, !.s = Resumed,
                                          !.head = 1050, !.todo = Pick(S), !.i = 1]
                    ELSE IdlePoll]
       /\ lastHanded = [c \in Chats |-> Key(Pick(S)[1])]
NextDedup == \E p \in PollIds : PollRow(p) \/ PollPersist(p)
SpecDedup == InitDedup /\ [][NextDedup]_vars

\* one mints tick after its scan returned, with the attribution cache as an
\* earlier tick left it: empty, or holding a named or unnamed entry written at
\* time 0, read at time 0 (live) or at time TTL_MS (expired)
CacheEntries(k) ==
  { <<>> } \cup { << [k |-> k, charId |-> MintChar(k), username |-> u, expiresAt |-> TTL_MS] >> :
                  u \in {CharName(MintChar(k)), NoName} }

InitResolve ==
  /\ call = IdleRpc
  /\ PvpOff
  /\ conf = [batch |-> BLOCK_BATCH, limit |-> BACKFILL_LIMIT]
  /\ watcher = "mints" /\ catchup = FALSE
  /\ store = [c \in Chats |-> Resumed]
  /\ head = MaxHead /\ now \in {0, TTL_MS}
  /\ attrMap \in { x \o y : x \in CacheEntries(21), y \in CacheEntries(22) }
  /\ Quiet /\ Polling
  /\ locks = [c \in Chats |-> FALSE]
  /\ poll = [p \in PollIds |-> IdlePoll]
  /\ seenEvent = [c \in Chats |-> EmptyMap]
  /\ seenSticky = [c \in Chats |-> EmptyMap]
  /\ LET todo == MintTodo(Resumed.lastCursor, MaxHead)
     IN /\ mpoll = [p \in PollIds |-> IF p = 1
                      THEN [IdleMPoll EXCEPT !.pc = "mResolve", !.chat = 1, !.s = Resumed,
                                             !.head = MaxHead, !.todo = todo, !.i = 1]
                      ELSE IdleMPoll]
        /\ seenMint = [c \in Chats |-> seenWithTtl(EmptyMap, MintKey(todo[1]), todo[1].bn, EVENT_DEDUP_TTL).map]
        /\ lastHanded = [c \in Chats |-> Key(todo[1])]
NextResolve == \E p \in PollIds : M_RowResolve(p) \/ M_RowDeliver(p) \/ M_PollPersist(p) \/ M_Unhandled(p)
SpecResolve == InitResolve /\ [][NextResolve]_vars

(* ------------------------------- claims -------------------------------- *)
\* the rows whose processing is in flight for chat c
InFlightRows(c) ==
  { poll[p].todo[poll[p].i] : p \in { q \in PollIds : poll[q].pc = "row" /\ poll[q].chat = c } }
  \cup { en[e].rows[en[e].i] : e \in { f \in EnableIds : en[f].pc = "bfRow" /\ en[f].chat = c } }
  \cup { mpoll[p].todo[mpoll[p].i] : p \in { q \in PollIds : mpoll[q].pc \in {"mResolve", "mDeliver"} /\ mpoll[q].chat = c } }

\* the notifications in b for the event (bn, h, vera), whatever the username
Notes(b, bn, h, vera) ==
  LET S == { n \in BagToSet(b) : n.bn = bn /\ n.h = h /\ n.vera = vera }
  IN IF S = {} THEN 0 ELSE BagCardinality([n \in S |-> b[n]])

\* C1: every cursor written to a subscriber's persisted lastCursor is
\* lexicographically >= the cursor it replaces: the persisted cursor never
\* moves backward.
C1_CursorNeverBackward ==
  [][\A c \in Chats :
        (store[c].lastCursor # NoCursor /\ store'[c].lastCursor # NoCursor)
        => LeqKey(store[c].lastCursor, store'[c].lastCursor)]_vars

\* C2: rows are handed to row processing in non-decreasing (bn, txi, li)
\* order: a row handed while the processing of another row of the same
\* subscriber is under way has a key >= that row's key.
C2_RowsInKeyOrder ==
  [][\A c \in Chats : lastHanded'[c] # lastHanded[c]
        => \A a \in InFlightRows(c) : LeqKey(Key(a), lastHanded'[c])]_vars

\* C3: two pollOnce invocations of the same subscriber and watcher are never
\* both inside the scan / attribution / sink sequence (past the session read
\* and not yet finished).
C3_OneTickAtATime ==
  \A c \in Chats :
    /\ Cardinality({ p \in PollIds : poll[p].pc \notin {"idle", "session"} /\ poll[p].chat = c }) <= 1
    /\ Cardinality({ p \in PollIds : mpoll[p].pc \notin {"idle", "session", "rejected"} /\ mpoll[p].chat = c }) <= 1

\* C4: once pause has made the token of a backfill in flight stale, no step
\* of that backfill makes a sink call or writes the subscriber's session.
C4_PauseStopsBackfill ==
  [][\A e \in EnableIds :
        (/\ en[e].pc \in {"bfScan", "bfSession", "bfEnabled", "bfRow", "bfPersist"}
         /\ ~isCurrent(runToken, en[e].chat, en[e].token)
         /\ en'[e] # en[e])
        => sent' = sent /\ store' = store]_vars

\* C5: when a row whose (block, txHash, entityId) is still recorded in the
\* event-identity namespace is observed again, exactly one notification has
\* been emitted for it.
C5_ExactlyOneNotification ==
  [][\A p \in PollIds :
        (/\ poll[p].pc = "row" /\ poll'[p] # poll[p]
         /\ LET row == poll[p].todo[poll[p].i]
                ek  == <<row.bn, row.h, OppVera(row.charId)>>
            IN ek \in DOMAIN seenEvent[poll[p].chat] /\ seenEvent[poll[p].chat][ek] >= row.bn)
        => LET row == poll[p].todo[poll[p].i]
           IN Notes(sent', row.bn, row.h, OppVera(row.charId)) = 1]_vars

\* C6: when a retry brings a pending entity's attempts to ATTRIB_MAX_RETRIES
\* without a resolved actor, the entry is removed and exactly one notification,
\* without attribution, has been emitted for the entity.
C6_GiveUpNotifiesOnce ==
  [][\A k \in Tokens :
        (pobj'[k].attempts # pobj[k].attempts /\ pobj'[k].attempts >= ATTRIB_MAX_RETRIES)
        => /\ k \notin Range(pending')
           /\ Notes(sent', MintRow(k).bn, MintRow(k).h, k) = 1]_vars

\* the order on (bn, txi, li), written out
StrictlyAfter(a, c) ==
  \/ a.bn > c.bn
  \/ (a.bn = c.bn /\ a.txi > c.txi)
  \/ (a.bn = c.bn /\ a.txi = c.txi /\ a.li > c.li)

\* the well-formed records of logs that lie after cursor cur, up to block h
RowsAfter(logs, cur, h) == { l \in logs : l.ok /\ l.bn <= h /\ StrictlyAfter(Key(l), cur) }

\* seq lists exactly the records of S, in strictly ascending key order
ListsAscending(seq, S) ==
  /\ Range(seq) = S
  /\ \A i, j \in 1..Len(seq) : i < j => StrictlyAfter(Key(seq[j]), Key(seq[i]))

\* key is recorded in the dedup map m and has not expired at block bn
Live(m, key, bn) == key \in DOMAIN m /\ m[key] >= bn

\* the card of an encounter row whose character has a username
EncCard(c, row) ==
  [chat |-> c, vera |-> OppVera(row.charId), bn |-> row.bn, h |-> row.h, user |-> CharName(row.charId)]

\* C7: a pollOnce run that completes persists a cursor after which the chain
\* it scanned holds no row, and a run that finds no row after its cursor ends
\* at its scan: it hands no row to row processing, emits nothing from the scan
\* on and leaves the persisted cursor unchanged.
C7_RerunProcessesNothing ==
  [][\A p \in PollIds :
        /\ (poll[p].pc = "persist" /\ poll'[p].pc = "idle")
             => RowsAfter(EncLogs, store'[poll[p].chat].lastCursor, poll[p].head) = {}
        /\ (mpoll[p].pc = "persist" /\ mpoll'[p].pc = "idle")
             => RowsAfter(MintLogs, store'[mpoll[p].chat].lastCursor, mpoll[p].head) = {}
        /\ (/\ poll[p].pc = "scan" /\ poll'[p] # poll[p]
            /\ RowsAfter(EncLogs, poll[p].s.lastCursor, poll[p].head) = {})
             => poll'[p] = IdlePoll /\ sent' = sent /\ store' = store /\ lastHanded' = lastHanded
        /\ (/\ mpoll[p].pc = "scan" /\ mpoll'[p] # mpoll[p]
            /\ RowsAfter(MintLogs, mpoll[p].s.lastCursor, head) = {})
             => /\ mpoll'[p].pc \in {"idle", "rejected"}
                /\ sent' = sent /\ store' = store /\ lastHanded' = lastHanded]_vars

\* a second encounters run has read the cursor the first run persisted and
\* the head the first run saw, and waits for its scan
C7_SecondRunAtScan ==
  \E p \in PollIds :
    /\ poll[p].pc = "scan" /\ calls = 2
    /\ store[poll[p].chat].lastCursor # Resumed.lastCursor
    /\ poll[p].s.lastCursor = store[poll[p].chat].lastCursor
    /\ poll[p].head = store[poll[p].chat].lastCursor.bn
    /\ sent # EmptyBag

\* C7 as the specification states it: no step of a run that started from the
\* cursor an earlier run persisted, on a chain with no row after that cursor,
\* emits a notification or writes the session.
C7_Original ==
  [][\A p \in PollIds :
        /\ (/\ poll[p].pc \notin {"idle", "session"} /\ poll'[p] # poll[p]
            /\ poll[p].s.lastCursor = store[poll[p].chat].lastCursor
            /\ poll[p].s.lastCursor # Resumed.lastCursor
            /\ RowsAfter(EncLogs, poll[p].s.lastCursor, head) = {})
             => sent' = sent /\ store' = store
        /\ (/\ mpoll[p].pc \notin {"idle", "session"} /\ mpoll'[p] # mpoll[p]
            /\ mpoll[p].s.lastCursor = store[mpoll[p].chat].lastCursor
            /\ mpoll[p].s.lastCursor # Resumed.lastCursor
            /\ RowsAfter(MintLogs, mpoll[p].s.lastCursor, head) = {})
             => sent' = sent /\ store' = store]_vars

\* C8: a tick's scan yields exactly the well-formed rows after the cursor up
\* to the head, in ascending key order; a row processed without failure yields
\* its notification unless the event dedup, the sticky dedup or the username
\* filter suppresses it; notifications leave in ascending block order; the
\* cursor persisted at the end is the key of the greatest row.
C8_TickDeliversAndAdvances ==
  [][\A p \in PollIds :
        /\ (poll[p].pc = "scan" /\ poll'[p].pc = "row")
             => ListsAscending(poll'[p].todo,
                               RowsAfter(EncLogs, poll[p].s.lastCursor, poll[p].head))
        /\ (mpoll[p].pc = "scan" /\ mpoll'[p].pc \notin {"scan", "idle", "rejected"})
             => ListsAscending(mpoll'[p].todo, RowsAfter(MintLogs, mpoll[p].s.lastCursor, head))
        /\ (/\ poll[p].pc = "row" /\ poll'[p] # poll[p]
            /\ poll'[p].pc \in {"row", "persist"} /\ poll'[p].fine)
             => LET c   == poll[p].chat
                    row == poll[p].todo[poll[p].i]
                    v   == OppVera(row.charId)
                    off == \/ Live(seenEvent[c], <<row.bn, row.h, v>>, row.bn)
                           \/ Live(seenSticky[c], <<row.charId, v>>, row.bn)
                           \/ ~usernamePass(poll[p].s.usernames, CharName(row.charId))
                IN /\ sent' = IF off THEN sent ELSE sent (+) SetToBag({EncCard(c, row)})
                   /\ \A i, j \in 1..Len(poll'[p].out) :
                        i < j => poll'[p].out[i].bn <= poll'[p].out[j].bn
        /\ (mpoll[p].pc = "mDeliver" /\ mpoll'[p] # mpoll[p] /\ mpoll'[p].pc # "rejected")
             => sent' = sent (+) SetToBag({MintCard(mpoll[p].chat,
                                                     mpoll[p].todo[mpoll[p].i].tokenId,
                                                     mpoll[p].user)})
        /\ (poll[p].pc = "persist" /\ poll'[p].pc = "idle")
             => store'[poll[p].chat].lastCursor = Key(poll[p].todo[Len(poll[p].todo)])
        /\ (mpoll[p].pc = "persist" /\ mpoll'[p].pc = "idle")
             => store'[mpoll[p].chat].lastCursor = Key(mpoll[p].todo[Len(mpoll[p].todo)])]_vars

\* the scenario on the mints watcher: from cursor (100,0,0) the rows (101,0,0)
\* and (103,2,1) were delivered once each and the cursor is (103,2,1)
C8_ScenarioDelivered ==
  /\ watcher = "mints"
  /\ \A c \in Chats : store[c].lastCursor = [bn |-> 103, txi |-> 2, li |-> 1]
  /\ sent = SetToBag({ MintCard(1, k, CharName(MintChar(k))) : k \in Tokens })
  /\ \A p \in PollIds : mpoll[p].pc = "idle"

\* C8 as the specification states it: a tick in which every remote call
\* succeeded and every row had a username has emitted one notification per row.
C8_Original ==
  \A p \in PollIds :
    (poll[p].pc = "persist" /\ poll[p].fine) => Len(poll[p].out) = Len(poll[p].todo)

\* C9: an observation of a pair whose sticky entry is still recorded, within
\* stickyTTL blocks of a notification already emitted for the pair, emits
\* nothing; an observation whose sticky entry is absent or expired, whose
\* event key is not live and whose processing does not fail is delivered.
C9_StickyWindow ==
  [][\A p \in PollIds :
        (poll[p].pc = "row" /\ poll'[p] # poll[p])
        => LET c       == poll[p].chat
               row     == poll[p].todo[poll[p].i]
               v       == OppVera(row.charId)
               pair    == <<row.charId, v>>
               earlier == { n \in BagToSet(sent) : n.chat = c /\ n.vera = v }
           IN /\ (/\ pair \in DOMAIN seenSticky[c]
                  /\ \E n \in earlier : row.bn <= n.bn + STICKY_TTL)
                   => sent' = sent
              /\ (/\ ~Live(seenSticky[c], pair, row.bn)
                  /\ ~Live(seenEvent[c], <<row.bn, row.h, v>>, row.bn)
                  /\ usernamePass(poll[p].s.usernames, CharName(row.charId))
                  /\ poll'[p].pc \in {"row", "persist"} /\ poll'[p].fine)
                   => sent' = sent (+) SetToBag({EncCard(c, row)})]_vars

\* the scenario: the pair seen at 101, 500 and 1050 was delivered at 101,
\* suppressed at 500 and delivered again at 1050
C9_ScenarioWindow ==
  \E p \in PollIds :
    /\ poll[p].pc = "persist"
    /\ poll[p].todo = Pick({1, 3, 6})
    /\ sent = SetToBag({ EncCard(poll[p].chat, DedupRows[1]), EncCard(poll[p].chat, DedupRows[6]) })

\* C9 as the specification states it: every observation of a pair within
\* stickyTTL blocks of a notification emitted for the pair emits nothing.
C9_Original ==
  [][\A p \in PollIds :
        (poll[p].pc = "row" /\ poll'[p] # poll[p])
        => LET row     == poll[p].todo[poll[p].i]
               earlier == { n \in BagToSet(sent) : n.chat = poll[p].chat /\ n.vera = OppVera(row.charId) }
           IN (\E n \in earlier : row.bn <= n.bn + STICKY_TTL) => sent' = sent]_vars

\* C10: the resolver starts its strategies in the order A (same transaction),
\* B (live probe), C (backscan); a live cached username starts none; B starts
\* only when A returned without a username, C only when B did too; the first
\* strategy that returns a username ends the run with that actor, and a
\* username that only the backscan finds is returned, cached and delivered.
C10_StrictOrder ==
  /\ \A k \in Tokens, w \in AllWorlds :
       LET r      == tryResolveAttribution(attrMap, now, k, w)
           cached == getAttribution(attrMap, now, k).value.username # NoName
           name   == CharName(MintChar(k))
           named  == ~r.threw /\ r.username = name /\ r.charId = MintChar(k)
       IN /\ r.run \in {<<>>, <<"A">>, <<"A", "B">>, <<"A", "B", "C">>}
          /\ cached <=> r.run = <<>>
          /\ cached => named
          /\ ~cached =>
               /\ ("B" \in Range(r.run)) <=> (w.a = "miss")
               /\ ("C" \in Range(r.run)) <=> (w.a = "miss" /\ w.b # "named")
               /\ w.a = "named" => named
               /\ (w.a = "miss" /\ w.b = "named") => named
               /\ (w.a = "miss" /\ w.b # "named" /\ w.c = "named")
                    => named /\ getAttribution(r.attr, now, k).value.username = name
               /\ r.username # NoName
                    => \/ w.a = "named"
                       \/ (w.a = "miss" /\ w.b = "named")
                       \/ (w.a = "miss" /\ w.b # "named" /\ w.c = "named")
  /\ \A p \in PollIds :
       mpoll[p].pc = "mDeliver"
       => mpoll[p].user = CharName(MintChar(mpoll[p].todo[mpoll[p].i].tokenId))

\* the cache entries had expired, so a strategy found the actor of token 21,
\* and the mint was delivered with that attribution
C10_ResolvedAndDelivered ==
  /\ now = TTL_MS
  /\ BagIn(MintCard(1, 21, CharName(MintChar(21))), sent)
  /\ \E j \in 1..Len(attrMap) :
       attrMap[j].k = 21 /\ attrMap[j].username = CharName(MintChar(21)) /\ attrMap[j].expiresAt = now + TTL_MS

\* C10 as the specification states it: once a strategy has found an actor
\* linked to the entity, no later strategy runs and that actor is returned.
C10_Original ==
  \A k \in Tokens, w \in AllWorlds :
    LET r == tryResolveAttribution(attrMap, now, k, w)
    IN (/\ getAttribution(attrMap, now, k).value = NoAttrib
        /\ w.a = "miss" /\ w.b \in {"named", "unnamed"})
       => "C" \notin Range(r.run) /\ r.charId = MintChar(k)

\* the notifications in bag b that went to chat c
SentTo(b, c) ==
  LET S == { n \in BagToSet(b) : n.chat = c }
  IN [n \in S |-> b[n]]

\* C11: while a subscriber's stored state is disabled and its pause has
\* returned (no toggle is waiting to run), no step makes a sink call for that
\* subscriber.
C11_PausedReceivesNothing ==
  [][\A c \in Chats :
        (~store[c].enabled /\ front[c].op = "none")
        => SentTo(sent', c) = SentTo(sent, c)]_vars

\* C12: a poll tick in which a remote call fails ends without an error
\* reaching its caller (the promise returned by pollOnce is never rejected),
\* leaves the persisted cursor as it was and frees the subscriber for later
\* ticks.
C12_FailedTickIsNoOp ==
  [][\A p \in PollIds :
        /\ mpoll'[p].pc # "rejected"
        /\ (poll[p].pc \in {"head", "scan", "row"} /\ poll'[p].pc = "idle")
             => store' = store /\ ~locks'[poll[p].chat]]_vars

(* C13: apart from enable's baseline, a cursor persisted by a poll tick or by
   a backfill is the (blockNumber, transactionIndex, logIndex) of a row that
   this tick or backfill has just finished processing, and no row of its list
   that it has not reached yet lies at or before the persisted cursor. *)
C13_CursorIsProcessedRow ==
  [][/\ \A p \in PollIds :
          (poll[p].pc = "persist" /\ poll'[p].pc # "persist")
            => LET t == poll[p].todo
                   r == t[poll[p].i]
                   w == store'[poll[p].chat].lastCursor
               IN /\ poll[p].i = Len(t)
                  /\ w = [bn |-> r.bn, txi |-> r.txi, li |-> r.li]
                  /\ \A k \in 1..Len(t) : k > poll[p].i => StrictlyAfter(Key(t[k]), w)
     /\ \A e \in EnableIds :
          (en[e].pc = "bfPersist" /\ en'[e].pc # "bfPersist")
            => LET t == en[e].rows
                   r == t[en[e].i]
                   w == store'[en[e].chat].lastCursor
               IN /\ w = [bn |-> r.bn, txi |-> r.txi, li |-> r.li]
                  /\ \A k \in 1..Len(t) : k > en[e].i => StrictlyAfter(Key(t[k]), w)]_vars

\* a backfill is about to persist the cursor of the second row it processed
C13_BackfillPersistsSecondRow ==
  \E e \in EnableIds :
    /\ en[e].pc = "bfPersist"
    /\ en[e].i >= 2
    /\ store[en[e].chat].lastCursor = Key(en[e].rows[en[e].i - 1])

\* the baseline cursor of an enable that read head h
Baseline(h) == [bn |-> h, txi |-> BaselineIndex, li |-> BaselineIndex]

(* C14: the order of enable's steps.  Its first step leaves no timer of the
   subscriber registered; no timer is started while the session write, the
   head read and the baseline write are outstanding; the timer is started
   after the baseline cursor was persisted.  The encounters watcher starts
   the timer in the very step in which the baseline write lands, without
   issuing a poll; the mints watcher runs its one-shot "latest mint" in
   between, which starts no tick and writes no cursor. *)
C14_EnableOrder ==
  [][/\ \A e \in EnableIds :
          /\ (en[e].pc = "idle" /\ en'[e].pc = "write")
               => /\ timers'[en'[e].chat] = 0
                  /\ { t \in intervals' : t.chat = en'[e].chat } = {}
          /\ en'[e].pc \in {"write", "head", "baseline"} => intervals' \subseteq intervals
          /\ (en[e].pc = "baseline" /\ en'[e].pc = "idle")
               => /\ store'[en[e].chat].lastCursor = Baseline(en[e].head)
                  /\ \E t \in intervals' \ intervals : t.chat = en[e].chat /\ t.token = en[e].token
                  /\ poll' = poll /\ locks' = locks
          /\ (men[e].pc = "idle" /\ men'[e].pc = "write")
               => tid' = 0 /\ { t \in intervals' : t.id = tid } = {}
          /\ men'[e].pc \in {"write", "baseline", "latest", "lResolve", "lDeliver"}
               => intervals' \subseteq intervals
          /\ (men[e].pc = "baseline" /\ men'[e].pc = "latest")
               => store'[men[e].chat].lastCursor = Baseline(head)
          /\ (men[e].pc \in {"latest", "lResolve", "lDeliver"} /\ men'[e] # men[e])
               => /\ store' = store /\ mpoll' = mpoll
                  /\ men[e].session.lastCursor.txi = BaselineIndex
     /\ ~(intervals' \subseteq intervals)
          => \E e \in EnableIds : \/ en[e].pc = "baseline"
                                  \/ men[e].pc \in {"latest", "lResolve", "lDeliver"}]_vars

\* the encounters timer is registered, the stored cursor is the baseline of
\* the current head, and no tick has run yet
C14_TimerRightAfterBaseline ==
  /\ watcher = "encounters"
  /\ \E t \in intervals : store[t.chat].lastCursor = Baseline(head) /\ isCurrent(runToken, t.chat, t.token)
  /\ \A p \in PollIds : poll[p].pc = "idle"
  /\ \A c \in Chats : lastHanded[c] = NoCursor

\* C14 as stated: a poll is issued between the baseline write and the start
\* of the timer, so the step in which the baseline write lands starts no timer
C14_Original ==
  [][\A e \in EnableIds :
       /\ (en[e].pc = "baseline" /\ en'[e] # en[e]) => intervals' = intervals
       /\ (men[e].pc = "baseline" /\ men'[e] # men[e]) => intervals' = intervals]_vars

(* C16: for one subscriber a backfill started by enable and a poll tick
   (timer-driven or manual) never overlap: at no time are both processing
   rows or writing the cursor of the same subscriber. *)
C16_BackfillAndTickExclusive ==
  \A e \in EnableIds, p \in PollIds :
    ~ /\ en[e].pc \in {"bfRow", "bfPersist"}
      /\ poll[p].pc \in {"row", "persist"}
      /\ poll[p].chat = en[e].chat

(* C19: when the sink call for a row fails (the row passed both dedup maps
   and the username filter, and nothing was delivered), the tick is not
   ended by it: it goes on to its next row or to persisting the cursor of
   this row. *)
C19_SinkFailureKeepsAdvancing ==
  [][\A p \in PollIds :
       (poll[p].pc = "row" /\ poll'[p] # poll[p])
         => LET c   == poll[p].chat
                row == poll[p].todo[poll[p].i]
                r   == sendEncounterForCharacter(c, row, poll[p].s, "sinkFail",
                                                 seenEvent[c], seenSticky[c], attrMap, now)
            IN (r.threw /\ seenEvent'[c] = r.ev /\ seenSticky'[c] = r.st /\ sent' = sent)
                 => /\ poll'[p].pc \in {"row", "persist"}
                    /\ poll'[p].last = Key(row)]_vars

(* C17: a tick of an enabled subscriber drains the pending queue before it
   queries the chain head.  After the session read it snapshots the whole
   queue; every entry it takes up is due (its backoff 500 * (attempts + 1)^2
   ms has run out at the tick's clock reading), every entry it passes over
   is not due, and when it moves on to the head query no entry of the
   snapshot that it has not retried is due. *)
C17_PendingDrainedFirst ==
  [][\A p \in PollIds :
       LET old  == mpoll[p]
           new  == mpoll'[p]
           done == IF old.pc = "session" THEN 0 ELSE old.j
           Wait(k) == new.t0 - pobj'[k].firstSeen
                        < 500 * (pobj'[k].attempts + 1) * (pobj'[k].attempts + 1)
       IN /\ (old.pc = "session" /\ new.pc \notin {"session", "idle"})
               => store[old.chat].enabled /\ new.snap = pending /\ new.t0 = now
          /\ (new.pc = "scan" /\ old.pc # "scan")
               => /\ old.pc \in {"session", "pResolve", "pDeliver"}
                  /\ \A i \in (done + 1)..Len(new.snap) : Wait(new.snap[i])
          /\ (new.pc = "pResolve" /\ (old.pc # "pResolve" \/ new.j # old.j))
               => /\ \A i \in (done + 1)..(new.j - 1) : Wait(new.snap[i])
                  /\ ~Wait(new.snap[new.j])]_vars

\* a tick has retried a queued entry and is about to query the head, with
\* no new row to scan
C17_DrainedWithoutNewRows ==
  \E p \in PollIds :
    /\ mpoll[p].pc = "scan"
    /\ Len(mpoll[p].snap) >= 1
    /\ pobj[mpoll[p].snap[1]].attempts >= 1
    /\ MintTodo(mpoll[p].s.lastCursor, head) = <<>>

\* the transient-failure class of a watcher, spelled out message by message
Transient(family) ==
  IF family = "pvp"
  THEN { m.text : m \in Messages } \ {"execution reverted"}
  ELSE {"limit exceeded", "temporarily unavailable", "request timeout", "BAD_DATA",
        "missing response", "502 Bad Gateway"}

(* C20: when the wrapped call fails with an error outside the transient
   class, rpc makes no further attempt and no backoff wait and throws that
   error to its caller; if it is the first attempt's error the call was
   invoked exactly once and rpc never waited.  Only an error of the
   transient class is followed by a wait and another attempt. *)
C20_NonTransientFailsAtOnce ==
  [][/\ (call.pc = "try" /\ call'.pc \in {"sleep", "threw"}
           /\ call'.e.text \notin Transient(call.family))
          => /\ call'.pc = "threw"
             /\ call'.invoked = call.invoked + 1
             /\ call'.slept = call.slept
             /\ (call.i = 0 => call'.invoked = 1 /\ call'.slept = 0)
     /\ (call.pc = "try" /\ call'.pc = "sleep") => call'.e.text \in Transient(call.family)
     /\ (call.pc = "sleep" /\ call'.pc = "try")
          => call'.i = call.i + 1 /\ call'.slept = call.slept + 1 /\ call'.invoked = call.invoked
     /\ (call.pc \in {"threw", "returned"}) => call' = call]_vars

\* the encounters rpc threw a connection reset after one invocation and no
\* wait
C20_ThrownAfterOneCall ==
  /\ call.pc = "threw"
  /\ call.family = "encounters"
  /\ call.e.text = "read ECONNRESET"
  /\ call.invoked = 1
  /\ call.slept = 0

\* the pending entries that belong to chat c
PendingOf(q, objs, c) == { k \in Range(q) : objs[k].chatId = c }

(* C15: a step of enable(a) or pause(a) leaves every other subscriber b
   untouched: b's registered timers, b's pending entries, b's stored session
   with its cursor, and b's dedup maps are the same after the step. *)
C15_OtherSubscriberUntouched ==
  [][\A a, b \in Subscribers :
       (/\ a # b
        /\ \/ (front[a].op # "none" /\ front'[a].op = "none")
           \/ \E e \in EnableIds : men[e].chat = a /\ men'[e] # men[e]
           \/ \E e \in EnableIds : en[e].chat = a /\ en'[e] # en[e])
         => /\ { t \in intervals' : t.chat = b } = { t \in intervals : t.chat = b }
            /\ PendingOf(pending', pobj', b) = PendingOf(pending, pobj, b)
            /\ store'[b] = store[b]
            /\ seenMint'[b] = seenMint[b]
            /\ seenEvent'[b] = seenEvent[b] /\ seenSticky'[b] = seenSticky[b]]_vars

(* C18: pending entries are keyed by (subscriber, entity): no two entries of
   the queue have the same pair, and when handleMint of chat c finds no
   attribution for a token and takes its queueing branch, the queue holds an
   entry of chat c for that token afterwards. *)
C18_OneEntryPerPair ==
  [][/\ \A i, j \in 1..Len(pending') :
          (pending'[i] = pending'[j] /\ pobj'[pending'[i]].chatId = pobj'[pending'[j]].chatId) => i = j
     /\ \A e \in EnableIds :
          (men[e].pc = "lResolve" /\ intervals' # intervals)
            => men[e].row \in PendingOf(pending', pobj', men[e].chat)
     /\ \A p \in PollIds :
          (mpoll[p].pc = "mResolve" /\ mpoll'[p] # mpoll[p]
             /\ mpoll'[p].pc \notin {"mDeliver", "rejected"})
            => mpoll[p].todo[mpoll[p].i].tokenId \in PendingOf(pending', pobj', mpoll[p].chat)]_vars

(* C21: when every attempt of the wrapped call failed with a retryable
   error, the value rpc throws is a failure of its own that carries the
   original error (cause) and the call's label. *)
C21_ExhaustionCarriesLabel ==
  (call.pc = "threw" /\ call.invoked = tries /\ call.e.text \in Transient(call.family))
    => /\ "label" \in DOMAIN call.thrown
       /\ "cause" \in DOMAIN call.thrown
       /\ call.thrown.label = call.label
       /\ call.thrown.cause = call.e

(* C22: seenWithTtl as the row loop applies it to a subscriber's event and
   sticky maps.  A key recorded with an expiry >= the row's block is a hit:
   the map, the stored expiry included, is left as it was and the row emits
   nothing.  A key that is absent or expired is a miss: the map becomes the
   old map with key -> block + ttl, or the empty map when that insertion
   takes it past the size ceiling (it stays as it was only when the row left
   before consulting it). *)
C22_SeenContract ==
  [][\A p \in PollIds :
        (poll[p].pc = "row" /\ poll'[p] # poll[p])
        => LET c   == poll[p].chat
               row == poll[p].todo[poll[p].i]
               v   == OppVera(row.charId)
               Recorded(m, key, ttl) ==
                 [k \in (DOMAIN m) \cup {key} |-> IF k = key THEN row.bn + ttl ELSE m[k]]
               Contract(m, m2, key, ttl) ==
                 IF Live(m, key, row.bn)
                 THEN m2 = m /\ sent' = sent
                 ELSE \/ m2 = m
                      \/ m2 = IF Cardinality(DOMAIN Recorded(m, key, ttl)) > SeenCeiling
                              THEN EmptyMap ELSE Recorded(m, key, ttl)
           IN /\ Contract(seenEvent[c], seenEvent'[c], <<row.bn, row.h, v>>, EVENT_DEDUP_TTL)
              /\ Contract(seenSticky[c], seenSticky'[c], <<row.charId, v>>, STICKY_TTL)]_vars

\* the pair recorded at block 101 was met again at block 1001, the last block
\* of its window: the row was suppressed and the expiry is still 101 + ttl
C22_RepeatKeepsExpiry ==
  \E p \in PollIds :
    /\ poll[p].pc = "persist"
    /\ poll[p].todo = Pick({1, 4})
    /\ seenSticky[poll[p].chat][<<1, OppVera(1)>>] = 101 + STICKY_TTL
    /\ sent = SetToBag({ EncCard(poll[p].chat, DedupRows[1]) })

\* C22 as the specification states it: a miss always leaves the key recorded
\* with expiry block + ttl.
C22_Original ==
  [][\A p \in PollIds :
        (poll[p].pc = "row" /\ poll'[p] # poll[p])
        => LET c    == poll[p].chat
               row  == poll[p].todo[poll[p].i]
               pair == <<row.charId, OppVera(row.charId)>>
           IN (~Live(seenSticky[c], pair, row.bn) /\ seenSticky'[c] # seenSticky[c])
                => /\ pair \in DOMAIN seenSticky'[c]
                   /\ seenSticky'[c][pair] = row.bn + STICKY_TTL]_vars

(* C23: a subscriber's run-token never decreases; a pause strictly increases
   it; no token captured by a tick, an enable run or a timer is ever greater
   than the subscriber's current token, so every token captured before a
   pause differs from the current token after it. *)
C23_TokenMonotone ==
  [][\A c \in Chats :
        LET Captured(polls, enables, timed) ==
              { polls[p].tk : p \in { q \in PollIds : polls[q].pc # "idle" /\ polls[q].chat = c } }
                \cup { enables[e].token : e \in { f \in EnableIds : enables[f].pc # "idle" /\ enables[f].chat = c } }
                \cup { t.token : t \in { u \in timed : u.chat = c } }
        IN /\ runToken'[c] >= runToken[c]
           /\ \A tk \in Captured(poll', en', intervals') : tk <= runToken'[c]
           /\ Pause(c) => /\ runToken'[c] > runToken[c]
                          /\ \A tk \in Captured(poll, en, intervals) : tk < runToken'[c]]_vars

\* a tick that captured its token before a pause is still in flight after it,
\* holding a token below the current one
C23_StaleTickAfterPause ==
  \E p \in PollIds :
    /\ poll[p].pc # "idle"
    /\ ~store[poll[p].chat].enabled
    /\ timers[poll[p].chat] = 0
    /\ \A e \in EnableIds : en[e].pc = "idle"
    /\ poll[p].tk < runToken[poll[p].chat]

(* C24: a manual pollOnce(subscriber) for a subscriber whose stored session
   is enabled and whose lock is free starts a scan tick (it takes the lock
   and goes on to read the session), with or without a timer and whether or
   not enable or pause ever ran for the subscriber. *)
C24_ManualPollScans ==
  [][\A c \in Chats :
        (PollEnter(c, NoToken) /\ store[c].enabled /\ ~locks[c])
          => /\ locks'[c]
             /\ \E p \in PollIds : /\ poll[p].pc = "idle"
                                   /\ poll'[p].pc = "session"
                                   /\ poll'[p].chat = c]_vars

(* C25: rpc invokes the wrapped call at most `tries` times; once a call
   returned, rpc returns with no further invocation and no wait; when every
   attempt failed with a transient error rpc throws right after the last
   attempt; and every started rpc ends, returning or throwing. *)
C25_BoundedAttempts ==
  /\ [][/\ call'.invoked <= tries
        /\ call'.invoked \in {call.invoked, call.invoked + 1}
        /\ (call.pc = "try" /\ call'.pc = "returned")
             => call'.invoked = call.i + 1 /\ call'.slept = call.i
        /\ (call.pc = "try" /\ call.i = tries - 1) => call'.pc \in {"returned", "threw"}
        /\ call.pc \in {"returned", "threw"} => call' = call]_vars
  /\ (call.pc = "try") ~> (call.pc \in {"returned", "threw"})

\* all five attempts failed with a transient error and rpc threw after four
\* waits
C25_ExhaustedAfterFive ==
  /\ call.pc = "threw"
  /\ call.invoked = tries
  /\ call.slept = tries - 1
  /\ call.e.text \in Transient(call.family)

(* C26: in the rpc helper of the encounters and mints watchers the wait
   before the k-th retry is base(k) + jitter with base(k) =
   min(250 * 2^(k-1), 2000) and 0 <= jitter < 100; the base delay the loop
   carries is base(k) before the k-th retry, so it doubles after each failed
   attempt and never exceeds 2000. *)
C26_BackoffSchedule ==
  [][LET base(k) == IF 250 * 2^(k - 1) < 2000 THEN 250 * 2^(k - 1) ELSE 2000
     IN call'.family \in {"encounters", "mints"}
          => /\ call'.delay = base(call'.i + 1)
             /\ call'.delay <= 2000
             /\ (call.pc = "try" /\ call'.pc = "sleep")
                  => /\ call'.wait >= base(call.i + 1)
                     /\ call'.wait < base(call.i + 1) + 100
             /\ (call.pc = "sleep" /\ call'.pc = "try" /\ call.delay <= 1000)
                  => call'.delay = 2 * call.delay]_vars

\* the mints rpc waits before its fourth retry with the greatest jitter
C26_FourthWaitAtCap ==
  /\ call.pc = "sleep"
  /\ call.family = "mints"
  /\ call.i = 3
  /\ call.wait = 2099

(* C27: processPending takes up an entry with attempts = k for a retry only
   when now - firstSeen >= 500 * (k + 1)^2 at the clock reading of the tick;
   a step of the tick's processPending changes no entry other than the one it
   has taken up, so an entry whose delay has not run out keeps its attempts
   and its place in the queue and is not resolved. *)
C27_RetryOnlyWhenDue ==
  [][\A p \in PollIds :
       LET old == mpoll[p]
           new == mpoll'[p]
           Due(objs, k, t0) == t0 - objs[k].firstSeen >= 500 * (objs[k].attempts + 1) * (objs[k].attempts + 1)
           taken == IF old.pc \in {"pResolve", "pDeliver"} THEN {old.snap[old.j]} ELSE {}
       IN /\ (new.pc = "pResolve" /\ (old.pc # "pResolve" \/ new.j # old.j))
               => Due(pobj', new.snap[new.j], new.t0)
          /\ (old.pc \in {"session", "pResolve", "pDeliver"} /\ new # old)
               => \A k \in Range(pending) \ taken :
                    /\ pobj'[k] = pobj[k]
                    /\ k \in Range(pending')
          /\ (old.pc \in {"session", "pResolve", "pDeliver"} /\ new.pc = "scan")
               => \A i \in 1..Len(new.snap) :
                    (new.snap[i] \in Range(pending) \ taken /\ ~Due(pobj, new.snap[i], new.t0))
                      => /\ pobj'[new.snap[i]] = pobj[new.snap[i]]
                         /\ new.snap[i] \in Range(pending')]_vars

\* a tick went through the queue and left an entry that was retried once
\* before and whose second delay has not run out: still queued, attempts 1
C27_NotDueLeftAlone ==
  \E p \in PollIds :
    /\ mpoll[p].pc = "scan"
    /\ \E i \in 1..Len(mpoll[p].snap) :
         LET k == mpoll[p].snap[i]
         IN /\ k \in Range(pending)
            /\ pobj[k].attempts = 1
            /\ mpoll[p].t0 - pobj[k].firstSeen >= 500
            /\ mpoll[p].t0 - pobj[k].firstSeen < 2000

(* C28: a retry that ends without a username adds exactly 1 to the entry's
   attempts; a queued entry's attempts stay below the configured maximum (at
   the maximum the entry is removed); and while the timer keeps ticking every
   queued entry is eventually removed from the queue. *)
C28_PendingDrains ==
  /\ [][\A k \in Tokens :
          /\ pobj'[k].attempts # pobj[k].attempts
               => \/ pobj'[k].attempts = pobj[k].attempts + 1
                  \/ pobj'[k].attempts = 0 /\ k \notin Range(pending)
          /\ k \in Range(pending') => pobj'[k].attempts < ATTRIB_MAX_RETRIES]_vars
  /\ \A k \in Tokens : (k \in Range(pending)) ~> (k \notin Range(pending))

(* C29: a scan of the block range [from, to], from <= to, with batch size
   B >= 1 issues ceil((to - from + 1) / B) log queries; each spans at most B
   blocks, they are pairwise disjoint and in ascending order, and together
   they cover exactly from..to.  Without a row cap the tick then holds every
   well-formed row after its cursor. *)
C29_BatchesPartitionRange ==
  [][\A p \in PollIds :
       (poll[p].pc = "scan" /\ poll'[p] # poll[p])
         => LET cur  == poll[p].s.lastCursor
                from == IF cur # NoCursor THEN cur.bn ELSE poll[p].head
                to   == poll[p].head
                B    == conf.batch
                bs   == Batches(from, to, B)
                n    == to - from + 1
            IN /\ from <= to /\ B >= 1
               /\ Len(bs) * B >= n /\ (Len(bs) - 1) * B < n
               /\ \A i \in 1..Len(bs) : /\ bs[i].from <= bs[i].to
                                        /\ bs[i].to - bs[i].from + 1 <= B
               /\ \A i, j \in 1..Len(bs) : i < j => bs[i].to < bs[j].from
               /\ UNION { bs[i].from..bs[i].to : i \in 1..Len(bs) } = from..to
               /\ (conf.limit = 0 /\ poll'[p].pc = "row")
                    => Range(poll'[p].todo) = RowsAfter(EncLogs, cur, to)]_vars

\* a tick scanned the five blocks 100 .. 104 in batches of 3 (a full batch
\* and a short one) and holds the two rows of blocks 101 and 103
C29_TwoBatchesScanned ==
  \E p \in PollIds :
    /\ poll[p].pc = "row"
    /\ conf.batch = 3 /\ conf.limit = 0
    /\ poll[p].head = 104
    /\ poll[p].s.lastCursor.bn = 100
    /\ Len(poll[p].todo) = 2

(* C30: the row cap does not touch a live poll tick: with a cap N > 0
   configured, a tick over (cursor, head] hands to row processing every
   well-formed row of that range. *)
C30_LiveTickIgnoresCap ==
  [][\A p \in PollIds :
       (poll[p].pc = "scan" /\ poll'[p].pc = "row" /\ conf.limit > 0)
         => Range(poll'[p].todo) = RowsAfter(EncLogs, poll[p].s.lastCursor, poll[p].head)]_vars

(* C31: the cache holds at most one record per entity, stamped with the time
   of its write plus the TTL.  getAttribution(e) answers with the actor and
   name of that record when less than the TTL has passed since the write,
   and with null, leaving no record of e behind, when the TTL has passed or
   there is no record; every record a step writes expires TTL_MS after the
   clock reading of the step. *)
C31_CacheReadWithinTtl ==
  /\ [](\A k \in Tokens :
          LET recs == { j \in 1..Len(attrMap) : attrMap[j].k = k }
              live == { j \in recs : now - (attrMap[j].expiresAt - TTL_MS) < TTL_MS }
              g    == getAttribution(attrMap, now, k)
          IN /\ Cardinality(recs) <= 1
             /\ \A j \in live : g.value = [charId |-> attrMap[j].charId, username |-> attrMap[j].username]
             /\ live = {} => /\ g.value = NoAttrib
                             /\ \A j \in 1..Len(g.map) : g.map[j].k # k)
  /\ [][\A j \in 1..Len(attrMap') :
          (\A i \in 1..Len(attrMap) : attrMap[i] # attrMap'[j])
            => attrMap'[j].expiresAt = now + TTL_MS]_vars

\* the record of token 21 written at time 0 was read at time TTL_MS: the read
\* gave null, a strategy resolved the token and wrote the record anew
C31_ExpiredThenRewritten ==
  /\ now = TTL_MS
  /\ \E j \in 1..Len(attrMap) : attrMap[j].k = 21 /\ attrMap[j].expiresAt = 2 * TTL_MS
  /\ \E p \in PollIds : mpoll[p].pc = "mDeliver" /\ mpoll[p].i = 1

(* C32: when a strategy (same-transaction scan, live probe, backscan)
   returns an actor for a token, the cache it hands back holds the record
   token -> (actor, name), readable at once and until the TTL has passed;
   when the record carries a username, a later tryResolveAttribution of the
   token within the TTL returns that actor from the cache and starts no
   strategy. *)
C32_ResolvedIsCached ==
  \A k \in Tokens, o \in {"named", "unnamed"} :
    LET hits == { tryAttributionFromSameTx(attrMap, now, k, o),
                  tryAttributionByOpponentProbe(attrMap, now, k, o),
                  populateAttributionNearMint(attrMap, now, k, o) }
    IN \A x \in { h \in hits : h.charId # 0 } :
         /\ getAttribution(x.attr, now, k).value = [charId |-> x.charId, username |-> x.username]
         /\ getAttribution(x.attr, now + TTL_MS - 1, k).value = [charId |-> x.charId, username |-> x.username]
         /\ x.username # NoName
              => \A w \in Worlds :
                   LET r == tryResolveAttribution(x.attr, now + TTL_MS - 1, k, w)
                   IN r.run = <<>> /\ r.via = "cache" /\ r.charId = x.charId /\ r.username = x.username

\* the tick resolved token 22 through a strategy at time TTL_MS, after its
\* old record had expired, and the cache holds the new record
C32_StrategyWroteRecord ==
  /\ now = TTL_MS
  /\ \E j \in 1..Len(attrMap) :
       attrMap[j].k = 22 /\ attrMap[j].expiresAt = 2 * TTL_MS /\ attrMap[j].username # NoName
  /\ \E p \in PollIds : mpoll[p].pc = "mDeliver" /\ mpoll[p].i = 2

\* C32 as the specification states it: whatever the strategy returned with
\* the actor, a later lookup within the TTL starts no strategy.
C32_Original ==
  \A k \in Tokens, o \in {"named", "unnamed"} :
    LET hits == { tryAttributionFromSameTx(attrMap, now, k, o),
                  tryAttributionByOpponentProbe(attrMap, now, k, o),
                  populateAttributionNearMint(attrMap, now, k, o) }
    IN \A x \in { h \in hits : h.charId # 0 } :
         \A w \in Worlds : tryResolveAttribution(x.attr, now + TTL_MS - 1, k, w).run = <<>>

(* ------------------ overlapping enable and pause calls ------------------ *)
\* the encounters watcher at the moment a subscriber has just switched it on
\* for the first time in this process: the toggle handler has stored the
\* enabled session and queued enable(); the subscriber may press the toggle
\* twice more while the awaits of that enable are outstanding, so a second
\* enable invocation can be in flight beside the first
InitOverlap ==
  /\ call = IdleRpc
  /\ PvpOff
  /\ conf = [batch |-> BLOCK_BATCH, limit |-> BACKFILL_LIMIT]
  /\ watcher = "encounters" /\ catchup = FALSE
  /\ store = [c \in Chats |-> [Fresh EXCEPT !.enabled = TRUE]]
  /\ front = [c \in Chats |-> [op |-> "enable", s |-> [Fresh EXCEPT !.enabled = TRUE]]]
  /\ head = 100 /\ now = 0 /\ attrMap = <<>>
  /\ sent = EmptyBag /\ calls = 0 /\ toggles = 0
  /\ en = [e \in {1, 2} |-> IdleEnable]
  /\ men = [e \in EnableIds |-> IdleMEnable]
  /\ pending = <<>> /\ pobj = [k \in Tokens |-> NoPending]
  /\ NoTick /\ FreshMaps /\ Stopped
NextOverlap ==
  \/ TimerTick
  \/ \E p \in PollIds : PollSession(p) \/ PollHead(p) \/ PollScan(p) \/ PollRow(p) \/ PollPersist(p)
  \/ \E c \in Subscribers : ToggleEnc(c) \/ EnableEnter(c) \/ Pause(c)
  \/ \E e \in DOMAIN en : EnableWrite(e) \/ EnableHead(e) \/ EnableBaseline(e)
  \/ ChainAdvance
SpecOverlap == InitOverlap /\ [][NextOverlap]_vars

\* C33: at any time at most one recurring timer is registered for a
\* subscriber of the encounters watcher, whatever the interleaving of enable
\* and pause calls.  Violated: enable clears the old timer at its entry and
\* registers the new one only after its awaits, so of two overlapping
\* enables each registers an interval and only the last one is in the
\* timers map.
C33_OneTimerPerSubscriber ==
  \A c \in Chats : Cardinality({ t \in intervals : t.chat = c }) <= 1

(* C34: after any call of seenWithTtl the namespace map of a subscriber
   holds at most the size ceiling (6000) entries: an insertion of a new key
   into a map that already holds 6000 entries leaves the whole map empty, the
   key just recorded included. *)
C34_SeenMapBounded ==
  [][\A c \in Chats :
       LET Step(m, m2) ==
             /\ Cardinality(DOMAIN m2) <= SeenCeiling
             /\ (Cardinality(DOMAIN m) = SeenCeiling /\ DOMAIN m2 # DOMAIN m) => m2 = EmptyMap
       IN /\ Step(seenEvent[c], seenEvent'[c])
          /\ Step(seenSticky[c], seenSticky'[c])]_vars

\* the sticky map held 5999 pairs; the first row of the tick recorded the
\* 6000th, the second row's pair was the 6001st and the map is empty, while
\* the tick goes on to its third row
C34_ClearedAtCeiling ==
  \E p \in PollIds :
    /\ poll[p].pc = "row"
    /\ poll[p].todo = Pick({1, 2, 3})
    /\ poll[p].i = 3
    /\ seenSticky[poll[p].chat] = EmptyMap
    /\ Cardinality(DOMAIN seenEvent[poll[p].chat]) = 2

(* C35: a timer tick that fires carrying a run-token older than the
   subscriber's current token returns at once: it takes no lock, starts no
   scan, reads no session, sends no card and writes no cursor.  Every
   pollOnce call that does start a tick carries the subscriber's current
   token; any other call leaves everything but the call count as it was. *)
C35_StaleTickDoesNothing ==
  [][calls' # calls
       => \/ /\ UNCHANGED <<poll, locks, store, sent, lastHanded, seenEvent, seenSticky, attrMap>>
             /\ UNCHANGED <<timers, runToken, intervals, en, front>>
          \/ \E p \in PollIds :
               /\ poll[p].pc = "idle" /\ poll'[p].pc = "session"
               /\ poll'[p].tk = runToken[poll'[p].chat]
               /\ \E t \in intervals : t.chat = poll'[p].chat /\ t.token = runToken[t.chat]]_vars

\* a pause overtook the first enable, whose timer was registered afterwards
\* with token 1 while the current token is 2: the timer has fired twice and
\* no tick was started, nothing was sent, the stored session is as the pause
\* left it
C35_StaleTimerFired ==
  /\ intervals = {[id |-> 1, chat |-> 1, token |-> 1]}
  /\ runToken[1] = 2
  /\ calls = MaxCalls
  /\ \A p \in PollIds : poll[p].pc = "idle"
  /\ ~locks[1]
  /\ sent = EmptyBag
  /\ ~store[1].enabled

(* C36: the per-subscriber lock of the encounters watcher is set exactly
   while a tick of that subscriber is in progress: every way a tick ends
   (normal completion, the early returns, a thrown error) releases it, so it
   is free whenever no tick is in flight and a later tick can acquire it. *)
C36_LockOnlyDuringTick ==
  \A c \in Chats :
    /\ locks[c] <=> \E p \in PollIds : poll[p].pc # "idle" /\ poll[p].chat = c
    /\ Cardinality({ p \in PollIds : poll[p].pc # "idle" /\ poll[p].chat = c }) <= 1

\* a first tick was handed a row and has ended (the stored cursor is not
\* that row's key: the row processing threw, or an enable wrote its baseline
\* afterwards); the lock was released, and a second tick has acquired it and
\* is about to read the session
C36_LockReacquired ==
  \E p \in PollIds :
    /\ poll[p].pc = "session"
    /\ locks[poll[p].chat]
    /\ lastHanded[poll[p].chat] # NoCursor
    /\ store[poll[p].chat].lastCursor # lastHanded[poll[p].chat]
    /\ \A q \in PollIds \ {p} : poll[q].pc = "idle"

(* C37: the session write that ends a poll tick changes only lastCursor:
   the enabled flag and the filter list held by the store at the moment of
   the write, whoever stored them and whenever, are still there after it.
   Violated: the tick writes back the whole session object it read at its
   start, so a toggle stored while the tick was in flight is undone. *)
C37_TickWritesOnlyCursor ==
  [][\A p \in PollIds :
       (poll[p].pc = "persist" /\ poll'[p].pc = "idle")
         => LET c == poll[p].chat
            IN /\ store'[c].enabled = store[c].enabled
               /\ store'[c].usernames = store[c].usernames]_vars

(* ------------------ mints: two ticks of the timer overlap --------------- *)
\* the mints watcher polling with one attribution entry pending: an earlier
\* tick met the mint of token 21 at block 101, found no player and left the
\* entry pending; its backoff has run out.  The timer has fired, that tick is
\* still waiting for getSession, and the timer has fired again (setInterval
\* does not wait for the tick before)
InitRetry ==
  /\ call = IdleRpc
  /\ PvpOff
  /\ conf = [batch |-> BLOCK_BATCH, limit |-> BACKFILL_LIMIT]
  /\ watcher = "mints" /\ catchup = FALSE
  /\ store = [c \in Chats |-> [Resumed EXCEPT !.lastCursor = [bn |-> 101, txi |-> 0, li |-> 0]]]
  /\ head = 101 /\ now = Delay(0) /\ attrMap = <<>>
  /\ front = [c \in Chats |-> NoFront]
  /\ sent = EmptyBag /\ calls = 0 /\ toggles = 0
  /\ en = [e \in EnableIds |-> IdleEnable]
  /\ men = [e \in EnableIds |-> IdleMEnable]
  /\ pending = <<21>>
  /\ pobj = [k \in Tokens |-> IF k = 21 THEN [chatId |-> 1, attempts |-> 0, firstSeen |-> 0]
                              ELSE NoPending]
  /\ locks = [c \in Chats |-> FALSE]
  /\ poll = [p \in PollIds |-> IdlePoll]
  /\ mpoll = [p \in PollIds |-> [IdleMPoll EXCEPT !.pc = "session", !.chat = 1]]
  /\ lastHanded = [c \in Chats |-> [bn |-> 101, txi |-> 0, li |-> 0]]
  /\ seenEvent = [c \in Chats |-> EmptyMap]
  /\ seenSticky = [c \in Chats |-> EmptyMap]
  /\ seenMint = [c \in Chats |-> [k \in {MintKey(MintRow(21))} |-> 101 + EVENT_DEDUP_TTL]]
  /\ Polling
SpecRetry == InitRetry /\ [][NextPend]_vars

(* C38: each pending attribution entry causes at most one sendCard call,
   also when a second poll tick starts while the first tick's retry of the
   entry is still awaiting a remote call: no more than one card of token 21
   (the entry pending at the start) ever reaches the sink.  Violated: both
   ticks take the entry into their snapshot of the pending map, both resolve
   it and both call sendCardWithResolved. *)
C38_OneCardPerPending ==
  LET cards == { x \in BagToSet(sent) : x.vera = 21 }
  IN /\ Cardinality(cards) <= 1
     /\ \A x \in cards : CopiesIn(x, sent) <= 1

(* ---------------- PvP queue watcher switched on and off ----------------- *)
\* the PvP queue watcher from process start: the subscriber presses the PvP
\* toggle, the timer fires, players enter and leave the queues
NextQueue ==
  \/ \E c \in Chats : Q_Toggle(c) \/ Q_Enable(c) \/ Q_Pause(c)
  \/ Q_Tick
  \/ \E p \in PollIds : Q_Poll(p)
SpecQueue == InitPend /\ [][NextQueue]_vars

(* C39: when a PvP queue poll tick completes, the tracked set of the chat
   becomes exactly the set of (battleType, characterId) pairs of the fetched
   snapshots; during the tick sendAlert was called exactly once for each
   snapshot pair that was not in the tracked set the tick read (it reads the
   set after its fetches) and never for a pair in it, and deleteAlert was
   called exactly once, with the tracked message id, for each pair of that
   set that is absent from the snapshots. *)
C39_TickDiffsAgainstTracked ==
  [][\A p \in PollIds :
       (qpoll[p].pc # "idle" /\ qpoll'[p].pc = "idle" /\ qpoll'[p].done)
         => LET t == qpoll'[p]
                Once(seq, S) == /\ Range(seq) = S
                                /\ Len(seq) = Cardinality(S)
            IN /\ DOMAIN liveByChat'[t.chat] = t.snap
               /\ Once(t.sentK, t.snap \ DOMAIN t.prev)
               /\ Once(t.delK, DOMAIN t.prev \ t.snap)
               /\ \A k \in t.snap \cap DOMAIN t.prev : liveByChat'[t.chat][k] = t.prev[k]
               /\ \A k \in t.snap \ DOMAIN t.prev :
                    alerts'[liveByChat'[t.chat][k]] = [chat |-> t.chat, key |-> k]]_vars

\* a tick that found player <<3, 1>> tracked and still queued, player
\* <<4, 2>> newly queued: it has completed with one alert sent, none deleted
\* and both players tracked
C39_CarriedAndAlerted ==
  \E p \in PollIds :
    /\ qpoll[p].pc = "idle" /\ qpoll[p].done
    /\ DOMAIN qpoll[p].prev = {<<3, 1>>}
    /\ qpoll[p].snap = {<<3, 1>>, <<4, 2>>}
    /\ qpoll[p].sentK = << <<4, 2>> >>
    /\ qpoll[p].delK = <<>>
    /\ DOMAIN liveByChat[qpoll[p].chat] = {<<3, 1>>, <<4, 2>>}

\* C39 as the specification states it: the alerts sent and deleted by a
\* completed tick are the difference between the snapshots and the set
\* tracked before the tick, that is, when pollOnce was called.
C39_Original ==
  [][\A p \in PollIds :
       (qpoll[p].pc # "idle" /\ qpoll'[p].pc = "idle" /\ qpoll'[p].done)
         => LET t == qpoll'[p]
            IN /\ DOMAIN liveByChat'[t.chat] = t.snap
               /\ Range(t.sentK) = t.snap \ t.start
               /\ Range(t.delK) = t.start \ t.snap]_vars

(* C40: every alert message created by sendAlert is at all times tracked
   for its chat (in liveByChat, or in the map a tick in flight is about to
   store or still has to work off) or has had deleteAlert called on it.
   Violated: pause drops the tracked map of the chat, and enable replaces
   it, without deleting the messages in it. *)
C40_AlertTrackedOrDeleted ==
  \A m \in 1..Len(alerts) :
    LET c == alerts[m].chat
        Holds(f) == \E k \in DOMAIN f : f[k] = m
    IN \/ Holds(liveByChat[c])
       \/ BagIn(m, deleted)
       \/ \E p \in PollIds : /\ qpoll[p].pc \in {"alert", "delete"}
                             /\ qpoll[p].chat = c
                             /\ Holds(qpoll[p].next) \/ Holds(qpoll[p].prev)

====
